---- MODULE Spec2Model ----
(***************************************************************************)
(* claude-code-proxy: the streaming re-emitter of POST /v1/messages        *)
(* (src/src/index.ts) and the request sanitizer (src/src/transform.ts).    *)
(*                                                                         *)
(* Text on the wire is a sequence of tokens: "\n", " ", the "data:"        *)
(* prefix, and the pieces of a payload.  The text of a JSON payload is two *)
(* tokens, a head named after the value it parses to and "<tail>", so that *)
(* a line cut between them is a truncated payload that JSON.parse rejects. *)
(***************************************************************************)
EXTENDS Integers, Sequences, FiniteSets, TLC

VARIABLES task, pending, wire, delivered, cancelledAt, inbound, req, dropped, phase,
          env, payload, data, response

\* the handler's configuration, upstream payload, upstream body and reply
handlerVars == <<env, payload, data, response>>

vars == <<task, pending, wire, delivered, cancelledAt, inbound, req, dropped, phase,
          handlerVars>>

(***************************************************************************)
(* Bounds of the model.                                                    *)
(***************************************************************************)
MaxReads == 3
MaxConcReads == 2
MaxWireFrames == 2
MaxKeys == 2

(***************************************************************************)
(* Upstream payloads: what JSON.parse returns for each payload name.       *)
(***************************************************************************)
NoToolCalls == <<>>

ToolCall(index, id, fname, fargs, name, args) ==
  [index |-> index, id |-> id, fname |-> fname, fargs |-> fargs,
   name |-> name, args |-> args]

Chunk(usage, choices, finish, content, reasoning, hasTc, tcs) ==
  [json |-> "object", error |-> FALSE, usage |-> usage, choices |-> choices,
   finish_reason |-> finish, content |-> content, reasoning |-> reasoning,
   hasToolCalls |-> hasTc, tool_calls |-> tcs]

JsonNull == [Chunk(<<>>, FALSE, "", "", "", FALSE, NoToolCalls) EXCEPT !.json = "null"]
JsonError == [Chunk(<<>>, FALSE, "", "", "", FALSE, NoToolCalls) EXCEPT !.error = TRUE]

PayloadNames ==
  {"null", "err", "usage", "role", "text_a", "text_b", "think", "finish",
   "tool0", "tool0_p", "tool0_q", "tool1", "tool01", "mixed"}

JsonValue(n) ==
  CASE n = "null"    -> JsonNull
    [] n = "err"     -> JsonError
    [] n = "usage"   -> Chunk(<<3, 1>>, FALSE, "", "", "", FALSE, NoToolCalls)
    [] n = "role"    -> Chunk(<<>>, TRUE, "", "", "", FALSE, NoToolCalls)
    [] n = "text_a"  -> Chunk(<<>>, TRUE, "", "a", "", FALSE, NoToolCalls)
    [] n = "text_b"  -> Chunk(<<>>, TRUE, "", "b", "", FALSE, NoToolCalls)
    [] n = "think"   -> Chunk(<<>>, TRUE, "", "", "r", FALSE, NoToolCalls)
    [] n = "finish"  -> Chunk(<<>>, TRUE, "tool_calls", "", "", FALSE, NoToolCalls)
    [] n = "tool0"   -> Chunk(<<>>, TRUE, "", "", "", TRUE,
                              <<ToolCall(0, "call_0", "f", "", "", "")>>)
    [] n = "tool0_p" -> Chunk(<<>>, TRUE, "", "", "", TRUE,
                              <<ToolCall(0, "", "", "{x:", "", "")>>)
    [] n = "tool0_q" -> Chunk(<<>>, TRUE, "", "", "", TRUE,
                              <<ToolCall(0, "", "", "1}", "", "")>>)
    [] n = "tool1"   -> Chunk(<<>>, TRUE, "", "", "", TRUE,
                              <<ToolCall(1, "", "", "", "g", "{}")>>)
    [] n = "tool01"  -> Chunk(<<>>, TRUE, "", "", "", TRUE,
                              <<ToolCall(0, "call_0", "f", "{", "", ""),
                                ToolCall(1, "call_1", "g", "[", "", "")>>)
    [] n = "mixed"   -> Chunk(<<>>, TRUE, "stop", "c", "", TRUE,
                              <<ToolCall(1, "call_1", "g", "z", "", "")>>)

(***************************************************************************)
(* Lines of the upstream body.                                             *)
(***************************************************************************)
NL == "\n"

DataLine(n) == <<"data:", " ", n, "<tail>">>
DoneLine == <<"data:", " ", "[DO", "NE]">>
BadLine == <<"data:", " ", "{oops">>
CommentLine == <<":", "keep-alive">>

RECURSIVE TrimStart(_)
TrimStart(t) ==
  IF Len(t) > 0 /\ t[1] = " " THEN TrimStart(Tail(t)) ELSE t

RECURSIVE TrimEnd(_)
TrimEnd(t) ==
  IF Len(t) > 0 /\ t[Len(t)] = " " THEN TrimEnd(SubSeq(t, 1, Len(t) - 1)) ELSE t

Trim(t) == TrimEnd(TrimStart(t))

StartsWithData(t) == Len(t) > 0 /\ t[1] = "data:"

\* trimmed.replace(/^data:\s*/, '')
StripData(t) == IF StartsWithData(t) THEN TrimStart(Tail(t)) ELSE t

IsDone(dataStr) == dataStr = <<"[DO", "NE]">>

\* JSON.parse: the value, or "bad" when it throws
JSONParse(dataStr) ==
  IF Len(dataStr) = 2 /\ dataStr[1] \in PayloadNames /\ dataStr[2] = "<tail>"
  THEN JsonValue(dataStr[1])
  ELSE [Chunk(<<>>, FALSE, "", "", "", FALSE, NoToolCalls) EXCEPT !.json = "bad"]

RECURSIVE SplitNL(_)
SplitNL(s) ==
  IF \E i \in 1..Len(s) : s[i] = NL
  THEN LET i == CHOOSE k \in 1..Len(s) : s[k] = NL /\ \A j \in 1..(k - 1) : s[j] # NL
       IN <<SubSeq(s, 1, i - 1)>> \o SplitNL(SubSeq(s, i + 1, Len(s)))
  ELSE <<s>>

EndsWithNL(s) == Len(s) > 0 /\ s[Len(s)] = NL

(***************************************************************************)
(* Downstream events (sendSSE payloads).  Every event is a record with the *)
(* same fields; the fields an event does not carry are "" / -1 / <<>>.     *)
(***************************************************************************)
Ev(type, index, kind, text, id, name, stop_reason, usage) ==
  [type |-> type, index |-> index, kind |-> kind, text |-> text, id |-> id,
   name |-> name, stop_reason |-> stop_reason, usage |-> usage]

MessageStart == Ev("message_start", -1, "", "", "msg", "", "", <<0, 0>>)
Ping == Ev("ping", -1, "", "", "", "", "", <<>>)
TextBlockStart == Ev("content_block_start", 0, "text", "", "", "", "", <<>>)
ToolBlockStart(idx, toolId, toolName) ==
  Ev("content_block_start", idx, "tool_use", "", toolId, toolName, "", <<>>)
BlockDelta(idx, kind, text) ==
  Ev("content_block_delta", idx, kind, text, "", "", "", <<>>)
BlockStop(idx) == Ev("content_block_stop", idx, "", "", "", "", "", <<>>)
MessageDelta(stop_reason, usage) ==
  Ev("message_delta", -1, "", "", "", "", stop_reason, usage)
MessageStop == Ev("message_stop", -1, "", "", "", "", "", <<>>)
\* controller.enqueue(encoder.encode('\n')): bytes that are no SSE event
RawNewline == Ev("raw", -1, "", NL, "", "", "", <<>>)

(***************************************************************************)
(* The state of one streaming task: the closure variables of               *)
(* ReadableStream.start and the state of its controller.                   *)
(*   ctrl:    "readable" | "closed" | "errored"                            *)
(*   pc:      "await" (suspended in reader.read()) | "done"                *)
(*   thrown:  an exception is propagating                                  *)
(*   returned: the [DONE] branch executed `return`                         *)
(*   fault:   an exception left start()                                    *)
(***************************************************************************)
NoAccumulators == [i \in {} |-> ""]

InitTask ==
  [isSucceeded |-> FALSE, accumulatedContent |-> "", accumulatedReasoning |-> "",
   usage |-> <<>>, textBlockStarted |-> FALSE, encounteredToolCall |-> FALSE,
   toolCallAccumulators |-> NoAccumulators, buffer |-> <<>>, out |-> <<>>,
   ctrl |-> "readable", pc |-> "await", thrown |-> FALSE, returned |-> FALSE,
   fault |-> FALSE, nread |-> 0]

\* run F unless an exception is propagating
Then(s, F(_)) == IF s.thrown THEN s ELSE F(s)

\* controller.enqueue throws a TypeError once the stream is closed or errored
sendSSE(s, ev) ==
  IF s.ctrl = "readable"
  THEN [s EXCEPT !.out = Append(@, ev)]
  ELSE [s EXCEPT !.thrown = TRUE]

\* sendSuccessMessage without its isSucceeded guard
sendSuccessMessageUnguarded(s) ==
  Then(sendSSE([s EXCEPT !.isSucceeded = TRUE], MessageStart),
       LAMBDA t : sendSSE(t, Ping))

sendSuccessMessage(s) ==
  IF s.isSucceeded THEN s
  ELSE Then(sendSSE([s EXCEPT !.isSucceeded = TRUE], MessageStart),
            LAMBDA t : sendSSE(t, Ping))

\* the frame with a finish_reason and neither content nor tool_calls
EmptyFinish(s, p) ==
  IF p.finish_reason # "" /\ p.content = "" /\ ~p.hasToolCalls
     /\ ~s.textBlockStarted /\ ~s.encounteredToolCall
  THEN sendSSE([s EXCEPT !.textBlockStarted = TRUE], TextBlockStart)
  ELSE s

SetAccumulator(acc, idx, v) ==
  [i \in (DOMAIN acc) \cup {idx} |-> IF i = idx THEN v ELSE acc[i]]

\* toolCall.function?.arguments || toolCall.arguments || ""
DeltaArgs(tc) == IF tc.fargs # "" THEN tc.fargs ELSE tc.args

\* the accumulated arguments sent in place of the fragment
PartialJsonAccumulated(acc, idx, deltaArgs) == acc[idx] \o deltaArgs

\* the partial_json of the input_json_delta sent for a fragment
PartialJson(acc, idx, deltaArgs) == deltaArgs

\* one iteration of `for (const toolCall of delta.tool_calls)`
OneToolCall(s, tc) ==
  LET idx == tc.index
      toolId == IF tc.id # "" THEN tc.id ELSE "tool_" \o ToString(idx)
      toolName == IF tc.fname # "" THEN tc.fname ELSE tc.name
      deltaArgs == DeltaArgs(tc)
      s1 == [s EXCEPT !.encounteredToolCall = TRUE]
      s2 == IF idx \notin DOMAIN s1.toolCallAccumulators
            THEN sendSSE([s1 EXCEPT !.toolCallAccumulators = SetAccumulator(@, idx, "")],
                         ToolBlockStart(idx, toolId, toolName))
            ELSE s1
  IN Then(s2, LAMBDA t :
       IF deltaArgs # ""
       THEN sendSSE([t EXCEPT !.toolCallAccumulators =
                        SetAccumulator(@, idx, @[idx] \o deltaArgs)],
                    BlockDelta(idx, "input_json_delta",
                               PartialJson(t.toolCallAccumulators, idx, deltaArgs)))
       ELSE t)

RECURSIVE ToolCallLoop(_, _, _)
ToolCallLoop(s, tcs, i) ==
  IF i > Len(tcs) \/ s.thrown THEN s
  ELSE ToolCallLoop(OneToolCall(s, tcs[i]), tcs, i + 1)

OpenTextBlock(s) ==
  IF ~s.textBlockStarted
  THEN sendSSE([s EXCEPT !.textBlockStarted = TRUE], TextBlockStart)
  ELSE s

\* if (delta.tool_calls) ... else if (delta.content) ... else if (delta.reasoning)
Dispatch(s, p) ==
  IF p.hasToolCalls THEN ToolCallLoop(s, p.tool_calls, 1)
  ELSE IF p.content # ""
  THEN Then(OpenTextBlock(s), LAMBDA t :
         sendSSE([t EXCEPT !.accumulatedContent = @ \o p.content],
                 BlockDelta(0, "text_delta", p.content)))
  ELSE IF p.reasoning # ""
  THEN Then(OpenTextBlock(s), LAMBDA t :
         sendSSE([t EXCEPT !.accumulatedReasoning = @ \o p.reasoning],
                 BlockDelta(0, "thinking_delta", p.reasoning)))
  ELSE s

\* an inner catch that lets the exception go on
InnerCatchRethrow(s) == s

\* what the inner catch does with an exception of the frame's try block
InnerCatch(s) == [s EXCEPT !.thrown = FALSE]

\* try { JSON.parse ... dispatch } catch (e) { continue }
ProcessData(s, dataStr) ==
  LET p == JSONParse(dataStr)
      r == IF p.json # "object" \/ p.error
           THEN [s EXCEPT !.thrown = TRUE]
           ELSE LET s1 == IF Len(p.usage) > 0 THEN [s EXCEPT !.usage = p.usage] ELSE s
                    s2 == sendSuccessMessage(s1)
                    s3 == Then(s2, LAMBDA t :
                            IF p.choices THEN t ELSE [t EXCEPT !.thrown = TRUE])
                    s4 == Then(s3, LAMBDA t : EmptyFinish(t, p))
                IN Then(s4, LAMBDA t : Dispatch(t, p))
  IN InnerCatch(r)

\* for (const idx in toolCallAccumulators): integer keys in ascending order
RECURSIVE StopLoop(_, _)
StopLoop(s, keys) ==
  IF keys = {} \/ s.thrown THEN s
  ELSE LET k == CHOOSE m \in keys : \A n \in keys : m <= n
       IN StopLoop(sendSSE(s, BlockStop(k)), keys \ {k})

StopBlocks(s) ==
  IF s.encounteredToolCall THEN StopLoop(s, DOMAIN s.toolCallAccumulators)
  ELSE IF s.textBlockStarted THEN sendSSE(s, BlockStop(0))
  ELSE s

\* controller.close() throws a TypeError unless the stream is readable
ControllerClose(s) ==
  IF s.ctrl = "readable" THEN [s EXCEPT !.ctrl = "closed"]
  ELSE [s EXCEPT !.thrown = TRUE]

\* controller.error(e) does nothing unless the stream is readable
ControllerError(s) ==
  IF s.ctrl = "readable" THEN [s EXCEPT !.ctrl = "errored"] ELSE s

FinalUsage(usage) == IF Len(usage) > 0 THEN usage ELSE <<0, 0>>

\* a [DONE] branch whose message_delta always says end_turn
FinalizeEndTurn(s) ==
  LET s1 == StopBlocks(s)
      s2 == Then(s1, LAMBDA t : sendSSE(t, MessageDelta("end_turn", FinalUsage(t.usage))))
      s3 == Then(s2, LAMBDA t : sendSSE(t, MessageStop))
      s4 == Then(s3, LAMBDA t : sendSSE(t, RawNewline))
      s5 == Then(s4, LAMBDA t : ControllerClose(t))
  IN Then(s5, LAMBDA t : [t EXCEPT !.returned = TRUE])

\* the [DONE] branch; its statements are outside the inner try
Finalize(s) ==
  LET s1 == StopBlocks(s)
      s2 == Then(s1, LAMBDA t :
              sendSSE(t, MessageDelta(IF t.encounteredToolCall THEN "tool_use"
                                      ELSE "end_turn", FinalUsage(t.usage))))
      s3 == Then(s2, LAMBDA t : sendSSE(t, MessageStop))
      s4 == Then(s3, LAMBDA t : sendSSE(t, RawNewline))
      s5 == Then(s4, LAMBDA t : ControllerClose(t))
  IN Then(s5, LAMBDA t : [t EXCEPT !.returned = TRUE])

ProcessLine(s, line) ==
  LET trimmed == Trim(line)
  IN IF trimmed = <<>> \/ ~StartsWithData(trimmed) THEN s
     ELSE LET dataStr == StripData(trimmed)
          IN IF IsDone(dataStr) THEN Finalize(s) ELSE ProcessData(s, dataStr)

RECURSIVE ProcessLines(_, _, _)
ProcessLines(s, lines, i) ==
  IF i > Len(lines) \/ s.thrown \/ s.returned THEN s
  ELSE ProcessLines(ProcessLine(s, lines[i]), lines, i + 1)

\* the lines of buffer + chunk that are handed to the frame loop
CompleteLines(buf) ==
  LET parts == SplitNL(buf)
  IN IF EndsWithNL(buf) THEN parts ELSE SubSeq(parts, 1, Len(parts) - 1)

\* what stays in the buffer
Residual(buf) ==
  LET parts == SplitNL(buf)
  IN IF EndsWithNL(buf) THEN <<>> ELSE parts[Len(parts)]

\* the chunk split into lines without the carry-over buffer
ProcessChunkUnbuffered(s, chunk) == ProcessLines(s, SplitNL(chunk), 1)

\* if (value) { buffer += chunk; split; for (const line of lines) ... }
ProcessChunk(s, chunk) ==
  LET buf == s.buffer \o chunk
  IN ProcessLines([s EXCEPT !.buffer = Residual(buf)], CompleteLines(buf), 1)

\* start() is left: an exception still propagating leaves it with the task
TaskExit(s) == [s EXCEPT !.fault = s.thrown, !.thrown = FALSE, !.pc = "done"]

\* the final close without its own try/catch
FinallyCloseUnguarded(s) == TaskExit(ControllerClose(s))

\* finally { try { controller.close() } catch { } }
FinallyClose(s) ==
  LET c == ControllerClose(s)
  IN TaskExit([c EXCEPT !.thrown = FALSE])

\* catch (error) { controller.error(error) }
OuterCatch(s) == IF s.thrown THEN ControllerError([s EXCEPT !.thrown = FALSE]) ELSE s

\* if (buffer.trim()) { ... }: after the loop the lines left in the buffer
\* are parsed and logged inside a try/catch, [DONE] is skipped, and nothing
\* is emitted or assigned
RemainingBuffer(s) == s

(***************************************************************************)
(* One resumption of start() after `await reader.read()` settles, up to    *)
(* the next await or the end of the function.                              *)
(*   res.kind: "chunk" (value), "end" (done: true), "fail" (rejection)     *)
(***************************************************************************)
NoResult == [kind |-> "none", value |-> <<>>]
ChunkResult(c) == [kind |-> "chunk", value |-> c]
EndResult == [kind |-> "end", value |-> <<>>]
FailResult == [kind |-> "fail", value |-> <<>>]

OnRead(s, res) ==
  LET s0 == [s EXCEPT !.nread = @ + 1]
  IN CASE res.kind = "fail" -> FinallyClose(OuterCatch([s0 EXCEPT !.thrown = TRUE]))
       [] res.kind = "end" -> FinallyClose(RemainingBuffer(s0))
       [] res.kind = "chunk" ->
            LET s1 == ProcessChunk(s0, res.value)
            IN IF s1.thrown \/ s1.returned THEN FinallyClose(OuterCatch(s1))
               ELSE s1

(***************************************************************************)
(* The upstream body as the reader sees it, and the requests in flight.    *)
(***************************************************************************)
Requests == DOMAIN task

Frame(line) == line \o <<NL, NL>>

\* one data frame per read: every payload, the sentinel, a malformed line,
\* an SSE comment
AllFrames ==
  {Frame(DataLine(n)) : n \in PayloadNames}
    \cup {Frame(DoneLine), Frame(BadLine), Frame(CommentLine)}

LiveFrames ==
  {Frame(DataLine("text_a")), Frame(DataLine("tool0_p")), Frame(DataLine("usage")),
   Frame(BadLine), Frame(DoneLine)}

ConcFrames ==
  {Frame(DataLine("text_a")), Frame(DataLine("tool0_p")), Frame(DataLine("finish")),
   Frame(DoneLine)}

WireFrames ==
  {Frame(DataLine("text_a")), Frame(DataLine("tool0_p")), Frame(DataLine("tool0_q")),
   Frame(DataLine("finish")), Frame(BadLine), Frame(DoneLine)}

RECURSIVE Flatten(_)
Flatten(chunks) ==
  IF chunks = <<>> THEN <<>> ELSE Head(chunks) \o Flatten(Tail(chunks))

RECURSIVE WireBodies(_)
WireBodies(n) ==
  IF n = 0 THEN {<<>>}
  ELSE LET shorter == WireBodies(n - 1)
       IN shorter \cup {f \o b : f \in WireFrames, b \in {x \in shorter : Len(x) > 0 \/ n = 1}}

Awaiting(r) == task[r].pc = "await" /\ pending[r].kind = "none"

\* delivered[r] is the log of request r's settled reads
Settle(r, res, log) ==
  /\ pending' = [pending EXCEPT ![r] = res]
  /\ delivered' = [delivered EXCEPT ![r] = log]
  /\ UNCHANGED <<task, cancelledAt, inbound, req, dropped, phase, handlerVars>>

\* reader.read() resolves with one of `frames`
UpstreamChunk(r, frames, max) ==
  /\ Awaiting(r)
  /\ wire[r] = <<>>
  /\ Len(delivered[r]) < max
  /\ \E c \in frames : Settle(r, ChunkResult(c), Append(delivered[r], ChunkResult(c)))
  /\ UNCHANGED wire

\* the text of the chunks in a log
Received(log) ==
  Flatten([i \in 1..Len(log) |-> log[i].value])

\* reader.read() resolves with the next piece of a fixed body, cut anywhere;
\* the log keeps the text received so far as one chunk
WireChunk(r) ==
  /\ Awaiting(r)
  /\ wire[r] # <<>>
  /\ \E k \in 1..Len(wire[r]) :
       /\ Settle(r, ChunkResult(SubSeq(wire[r], 1, k)),
                 <<ChunkResult(Received(delivered[r]) \o SubSeq(wire[r], 1, k))>>)
       /\ wire' = [wire EXCEPT ![r] = SubSeq(@, k + 1, Len(@))]

\* reader.read() resolves with done: true
UpstreamEnd(r) ==
  /\ Awaiting(r)
  /\ wire[r] = <<>>
  /\ Settle(r, EndResult, Append(delivered[r], EndResult))
  /\ UNCHANGED wire

\* reader.read() rejects
UpstreamFail(r) ==
  /\ Awaiting(r)
  /\ Settle(r, FailResult, Append(delivered[r], FailResult))
  /\ UNCHANGED wire

\* isSucceeded kept in one variable shared by all requests
ResumeTaskShared(ts, r, res) ==
  [ts EXCEPT ![r] =
     OnRead([ts[r] EXCEPT !.isSucceeded = \E q \in DOMAIN ts : ts[q].isSucceeded], res)]

\* the tasks after request r's start() has run on the settled read
ResumeTask(ts, r, res) == [ts EXCEPT ![r] = OnRead(ts[r], res)]

Resume(r) ==
  /\ task[r].pc = "await"
  /\ pending[r].kind # "none"
  /\ task' = ResumeTask(task, r, pending[r])
  /\ pending' = [pending EXCEPT ![r] = NoResult]
  /\ UNCHANGED <<wire, delivered, cancelledAt, inbound, req, dropped, phase, handlerVars>>

\* the client goes away: the consumer cancels the output stream.  The stream
\* was built with start() alone, so nothing else runs.
ClientCancel(r) ==
  /\ task[r].ctrl = "readable"
  /\ cancelledAt[r] = -1
  /\ task' = [task EXCEPT ![r].ctrl = "closed"]
  /\ cancelledAt' = [cancelledAt EXCEPT ![r] = task[r].nread]
  /\ UNCHANGED <<pending, wire, delivered, inbound, req, dropped, phase, handlerVars>>

(***************************************************************************)
(* sanitizeRoot (src/src/transform.ts).  A request object is a function    *)
(* from its keys to their values; a key that is absent is not in DOMAIN.   *)
(***************************************************************************)
DROP_KEYS ==
  <<"n", "presence_penalty", "frequency_penalty", "best_of", "logit_bias", "seed",
    "stream_options", "logprobs", "top_logprobs", "user", "response_format",
    "service_tier", "parallel_tool_calls", "functions", "function_call">>

DefaultMaxTokens == 4096

EmptyRequest == [k \in {} |-> ""]

HasKey(o, k) == k \in DOMAIN o
SetKey(o, k, v) == [x \in (DOMAIN o) \cup {k} |-> IF x = k THEN v ELSE o[x]]
DeleteKey(o, k) == [x \in (DOMAIN o) \ {k} |-> o[x]]

\* a stop value: a scalar or an array of strings
Scalar(v) == [array |-> FALSE, items |-> <<v>>]
Array(vs) == [array |-> TRUE, items |-> vs]

\* if (req.stop !== undefined) { req.stop_sequences = ...; delete req.stop }
RenameStop(st) ==
  IF HasKey(st.req, "stop")
  THEN [st EXCEPT !.req = DeleteKey(SetKey(@, "stop_sequences", Array(@["stop"].items)),
                                    "stop")]
  ELSE st

\* the user conversion without `delete req.user`
ConvertUserNoDelete(st) ==
  IF HasKey(st.req, "user") /\ st.req["user"] # ""
  THEN LET metadata == IF HasKey(st.req, "metadata") THEN st.req["metadata"]
                       ELSE EmptyRequest
       IN [req |-> SetKey(st.req, "metadata",
                          SetKey(metadata, "user_id", st.req["user"])),
           keys |-> Append(st.keys, "user")]
  ELSE st

\* if (req.user) { req.metadata = {...}; dropped.push('user'); delete req.user }
ConvertUser(st) ==
  IF HasKey(st.req, "user") /\ st.req["user"] # ""
  THEN LET metadata == IF HasKey(st.req, "metadata") THEN st.req["metadata"]
                       ELSE EmptyRequest
       IN [req |-> DeleteKey(SetKey(st.req, "metadata",
                                    SetKey(metadata, "user_id", st.req["user"])), "user"),
           keys |-> Append(st.keys, "user")]
  ELSE st

\* for (const key of DROP_KEYS) if (key in req) { dropped.push(key); delete req[key] }
RECURSIVE DropLoop(_, _)
DropLoop(st, i) ==
  IF i > Len(DROP_KEYS) THEN st
  ELSE LET key == DROP_KEYS[i]
       IN DropLoop(IF HasKey(st.req, key)
                   THEN [req |-> DeleteKey(st.req, key), keys |-> Append(st.keys, key)]
                   ELSE st, i + 1)

\* if (req.max_tokens == null) req.max_tokens = 4096
EnsureMaxTokens(st) ==
  IF ~HasKey(st.req, "max_tokens")
  THEN [st EXCEPT !.req = SetKey(@, "max_tokens", DefaultMaxTokens)]
  ELSE st

\* the request after sanitizeRoot, and the keys it returns
sanitizeRoot(r) ==
  EnsureMaxTokens(DropLoop(ConvertUser(RenameStop([req |-> r, keys |-> <<>>])), 1))

InitStreams(rs) ==
  /\ task = [r \in rs |-> InitTask]
  /\ pending = [r \in rs |-> NoResult]
  /\ delivered = [r \in rs |-> <<>>]
  /\ cancelledAt = [r \in rs |-> -1]

\* nothing has been sent upstream or received from it
NoUpstream ==
  /\ env = EmptyRequest
  /\ payload = EmptyRequest
  /\ data = EmptyRequest
  /\ response = EmptyRequest

\* no request is being transformed
NoTransform ==
  /\ inbound = EmptyRequest
  /\ req = EmptyRequest
  /\ dropped = <<>>
  /\ phase = "streaming"
  /\ NoUpstream

Init == InitStreams({1}) /\ NoTransform /\ wire = [r \in {1} |-> <<>>]

FrameArrives == \E r \in Requests : UpstreamChunk(r, AllFrames, MaxReads)
BodyEnds == \E r \in Requests : UpstreamEnd(r)
ReadFails == \E r \in Requests : UpstreamFail(r)
TaskResumes == \E r \in Requests : Resume(r)

Next == FrameArrives \/ BodyEnds \/ ReadFails \/ TaskResumes

Spec == Init /\ [][Next]_vars

(***************************************************************************)
(* The same task with a client that may disconnect.  A settled read is     *)
(* always followed by the continuation of start(): the event loop runs the *)
(* microtask of a settled promise.                                         *)
(***************************************************************************)
LiveFrameArrives == \E r \in Requests : UpstreamChunk(r, LiveFrames, MaxReads)
ClientCancels == \E r \in Requests : ClientCancel(r)

LiveNext == LiveFrameArrives \/ BodyEnds \/ ReadFails \/ TaskResumes \/ ClientCancels

\* TaskResumes as `pending` shows it: the step that takes a settled read.
\* No other step of LiveNext empties pending[r], and Resume(r) is enabled
\* exactly when its first two conjuncts hold, so weak fairness of this
\* action is weak fairness of TaskResumes.
TakesRead ==
  \E r \in Requests :
    /\ task[r].pc = "await"
    /\ pending[r].kind # "none"
    /\ pending' = [pending EXCEPT ![r] = NoResult]

LiveSpec == Init /\ [][LiveNext]_vars /\ WF_pending(TakesRead)

(***************************************************************************)
(* A fixed well-formed body delivered in pieces cut at arbitrary places.   *)
(***************************************************************************)
WireInit == InitStreams({1}) /\ NoTransform /\ \E b \in WireBodies(MaxWireFrames) : wire = [r \in {1} |-> b]

PieceArrives == \E r \in Requests : WireChunk(r)

\* a body whose last line is the sentinel, with no newline after it
TailInit ==
  /\ InitStreams({1})
  /\ NoTransform
  /\ \E b \in WireBodies(MaxWireFrames) : wire = [r \in {1} |-> b \o DoneLine]

WireNext == PieceArrives \/ BodyEnds \/ TaskResumes

WireSpec == WireInit /\ [][WireNext]_vars

TailSpec == TailInit /\ [][WireNext]_vars

(***************************************************************************)
(* Two requests in flight, their reads settling in any order.              *)
(***************************************************************************)
ConcInit == InitStreams({1, 2}) /\ NoTransform /\ wire = [r \in {1, 2} |-> <<>>]

ConcFrameArrives == \E r \in Requests : UpstreamChunk(r, ConcFrames, MaxConcReads)

ConcNext == ConcFrameArrives \/ BodyEnds \/ TaskResumes

ConcSpec == ConcInit /\ [][ConcNext]_vars

(***************************************************************************)
(* The request pipeline of transformOpenAIToClaude, run on a request body. *)
(***************************************************************************)
RequestKeys ==
  {DROP_KEYS[i] : i \in 1..Len(DROP_KEYS)} \cup {"stop", "max_tokens", "metadata"}

KeyValues(k) ==
  CASE k = "user" -> {"", "u1"}
    [] k = "stop" -> {Scalar("END"), Array(<<"a", "b">>)}
    [] k = "max_tokens" -> {DefaultMaxTokens + DefaultMaxTokens}
    [] k = "metadata" -> {[x \in {"trace"} |-> "t"]}
    [] OTHER -> {"v"}

\* the request bodies over the keys ks
RECURSIVE Assignments(_)
Assignments(ks) ==
  IF ks = {} THEN {EmptyRequest}
  ELSE LET k == CHOOSE x \in ks : TRUE
       IN {SetKey(a, k, v) : a \in Assignments(ks \ {k}), v \in KeyValues(k)}

\* the request bodies with at most MaxKeys of the keys
InboundRequests ==
  UNION {Assignments(ks) : ks \in {x \in SUBSET RequestKeys : Cardinality(x) <= MaxKeys}}

SanitizeInit ==
  /\ InitStreams({})
  /\ wire = [r \in {} |-> <<>>]
  /\ inbound \in InboundRequests
  /\ req = inbound
  /\ dropped = <<>>
  /\ phase = "received"
  /\ NoUpstream

\* const dropped = sanitizeRoot(req)
Sanitize ==
  /\ phase = "received"
  /\ LET st == sanitizeRoot(req)
     IN /\ req' = st.req
        /\ dropped' = st.keys
  /\ phase' = "sanitized"
  /\ UNCHANGED <<task, pending, wire, delivered, cancelledAt, inbound, handlerVars>>

SanitizeNext == Sanitize

SanitizeSpec == SanitizeInit /\ [][SanitizeNext]_vars

(***************************************************************************)
(* JSON values of tool schemas, and removeUriFormat (src/src/transform.ts). *)
(* A value is a leaf, an object (a function from its keys) or an array.    *)
(***************************************************************************)
MaxSchemaDepth == 1

NoFields == [k \in {} |-> ""]

JLeaf(v) == [kind |-> "leaf", value |-> v, fields |-> NoFields, items |-> <<>>]
JObject(f) == [kind |-> "object", value |-> "", fields |-> f, items |-> <<>>]
JArray(xs) == [kind |-> "array", value |-> "", fields |-> NoFields, items |-> xs]

\* schema.type === 'string' && schema.format === 'uri'
IsUriString(s) ==
  /\ HasKey(s.fields, "type") /\ s.fields["type"] = JLeaf("string")
  /\ HasKey(s.fields, "format") /\ s.fields["format"] = JLeaf("uri")

RECURSIVE removeUriFormat(_)
removeUriFormat(schema) ==
  IF schema.kind = "leaf" THEN schema
  ELSE IF schema.kind = "object" /\ IsUriString(schema)
  THEN JObject(DeleteKey(schema.fields, "format"))
  ELSE IF schema.kind = "array"
  THEN JArray([i \in 1..Len(schema.items) |-> removeUriFormat(schema.items[i])])
  ELSE JObject([key \in DOMAIN schema.fields |->
         IF key = "properties" /\ schema.fields[key].kind = "object"
         THEN JObject([propKey \in DOMAIN schema.fields[key].fields |->
                         removeUriFormat(schema.fields[key].fields[propKey])])
         ELSE removeUriFormat(schema.fields[key])])

\* the schemas nested to depth d: an optional type, an optional format and
\* at most one member that holds a nested schema
SchemaHeads ==
  {f \in [{"type", "format"} -> {"", "string", "object", "uri"}] :
     f["type"] \in {"", "string", "object"} /\ f["format"] \in {"", "uri"}}

HeadFields(h) ==
  [k \in {x \in {"type", "format"} : h[x] # ""} |-> JLeaf(h[k])]

RECURSIVE Schemas(_)
Schemas(d) ==
  IF d = 0
  THEN {JLeaf("x")} \cup {JObject(HeadFields(h)) : h \in SchemaHeads}
  ELSE LET inner == Schemas(d - 1)
           members == {JObject([p \in {"url"} |-> c]) : c \in inner}
           nested ==
             {[key |-> "properties", child |-> m] : m \in members}
               \cup {[key |-> k, child |-> c] : k \in {"items", "default"}, c \in inner}
               \cup {[key |-> "anyOf", child |-> JArray(<<c>>)] : c \in inner}
       IN inner
            \cup {JArray(<<c>>) : c \in inner}
            \cup {JObject(SetKey(HeadFields(h), n.key, n.child)) :
                    h \in SchemaHeads, n \in nested}

(***************************************************************************)
(* Tool declarations: mapTools (src/src/transform.ts) and the tools of the *)
(* upstream payload (src/src/index.ts).                                    *)
(***************************************************************************)
Undefined == "undefined"
Null == "null"

\* o[k], or `absent` when o has no key k
Field(o, k, absent) == IF HasKey(o, k) THEN o[k] ELSE absent

\* format A: { type: 'function', function: { name, description, parameters } }
ToolA(name, description, parameters) ==
  [type |-> "function",
   function |-> [name |-> name, description |-> description, parameters |-> parameters]]

\* format B: { name, description, input_schema }
ToolB(name, description, input_schema) ==
  [name |-> name, description |-> description, input_schema |-> input_schema]

\* one element of openAITools.map(...) in mapTools
ClaudeTool(t) ==
  LET f == Field(t, "function", NoFields)
  IN ToolB(IF HasKey(f, "name") THEN f["name"] ELSE Field(t, "name", Undefined),
           IF HasKey(f, "description") THEN f["description"]
           ELSE Field(t, "description", Undefined),
           removeUriFormat(IF HasKey(f, "parameters") THEN f["parameters"]
                           ELSE Field(t, "input_schema", JLeaf(Undefined))))

mapTools(r) ==
  LET functions == Field(r, "functions", <<>>)
      openAITools ==
        Field(r, "tools", <<>>)
          \o [i \in 1..Len(functions) |-> [type |-> "function", function |-> functions[i]]]
  IN DeleteKey(SetKey(r, "tools",
                      [i \in 1..Len(openAITools) |-> ClaudeTool(openAITools[i])]),
               "functions")

\* (claudeRequest.tools || []).filter(...).map(...)
UpstreamTools(r) ==
  LET kept == SelectSeq(Field(r, "tools", <<>>), LAMBDA tool : tool.name # "BatchTool")
  IN [i \in 1..Len(kept) |->
        ToolA(kept[i].name, kept[i].description, removeUriFormat(kept[i].input_schema))]

ToolNames == {"fetch", "BatchTool"}
ToolDescriptions == {"d", Undefined}

ToolInit ==
  /\ InitStreams({})
  /\ wire = [r \in {} |-> <<>>]
  /\ \E n \in ToolNames, d \in ToolDescriptions, p \in Schemas(MaxSchemaDepth) :
       inbound = [tools |-> <<ToolA(n, d, p)>>]
  /\ req = inbound
  /\ dropped = <<>>
  /\ phase = "received"
  /\ NoUpstream

\* mapTools(req)
MapTools ==
  /\ phase = "sanitized"
  /\ req' = mapTools(req)
  /\ phase' = "mapped"
  /\ UNCHANGED <<task, pending, wire, delivered, cancelledAt, inbound, dropped, handlerVars>>

(***************************************************************************)
(* mapToolChoice (src/src/transform.ts).  function_call is a string or an  *)
(* object with a name; a member an object lacks is Undefined.              *)
(***************************************************************************)
ChoiceText(t) == [isString |-> TRUE, text |-> t, name |-> Undefined]
ChoiceObject(name) == [isString |-> FALSE, text |-> "", name |-> name]

\* tool_choice of format B: { type, name }
ToolChoice(type, name) == [type |-> type, name |-> name]

\* a mapToolChoice that maps every string to auto
mapToolChoiceAuto(r) ==
  IF ~HasKey(r, "function_call") THEN r
  ELSE LET fc == r["function_call"]
       IN DeleteKey(IF fc.isString THEN SetKey(r, "tool_choice", ToolChoice("auto", Undefined))
                    ELSE SetKey(r, "tool_choice", ToolChoice("tool", fc.name)),
                    "function_call")

mapToolChoice(r) ==
  IF ~HasKey(r, "function_call") \/ r["function_call"] = ChoiceText("") THEN r
  ELSE LET fc == r["function_call"]
       IN DeleteKey(IF fc.isString
                    THEN SetKey(r, "tool_choice",
                                ToolChoice(IF fc.text = "none" THEN "none" ELSE "auto",
                                           Undefined))
                    ELSE IF fc.name \notin {Undefined, ""}
                    THEN SetKey(r, "tool_choice", ToolChoice("tool", fc.name))
                    ELSE r,
                    "function_call")

\* mapToolChoice(req)
MapToolChoice ==
  /\ phase = "mapped"
  /\ req' = mapToolChoice(req)
  /\ phase' = "chosen"
  /\ UNCHANGED <<task, pending, wire, delivered, cancelledAt, inbound, dropped, handlerVars>>

(***************************************************************************)
(* transformMessages (src/src/transform.ts).  A message carries every      *)
(* member a message can have; the members it lacks are "" / <<>>.          *)
(***************************************************************************)
MaxMessages == 3

\* the arguments of a call: a string of JSON text, or an object
ArgText(t) == [isString |-> TRUE, text |-> t, object |-> JLeaf(Undefined)]
ArgObject(o) == [isString |-> FALSE, text |-> "", object |-> o]

\* the texts JSON.parse accepts; it throws a SyntaxError on every other
ParsesAsJson(text) == text \in {"{}", "{\"x\":1}"}

ParseJson(text) ==
  IF text = "{}" THEN JObject(NoFields) ELSE JObject([x \in {"x"} |-> JLeaf("1")])

\* typeof a === 'string' ? JSON.parse(a) : a
ParsesOrObject(a) == ~a.isString \/ ParsesAsJson(a.text)
ParsedInput(a) == IF a.isString THEN ParseJson(a.text) ELSE a.object

Call(id, name, arguments) == [id |-> id, name |-> name, arguments |-> arguments]

Message(role, content, name, tool_call_id, function_call, tool_calls, blocks) ==
  [role |-> role, content |-> content, name |-> name, tool_call_id |-> tool_call_id,
   function_call |-> function_call, tool_calls |-> tool_calls, blocks |-> blocks]

Plain(role, content) == Message(role, content, "", "", <<>>, <<>>, <<>>)

Block(type, text, id, name, input, tool_use_id, content) ==
  [type |-> type, text |-> text, id |-> id, name |-> name, input |-> input,
   tool_use_id |-> tool_use_id, content |-> content]

TextBlock(text) == Block("text", text, "", "", JLeaf(Undefined), "", "")
ToolUseBlock(id, name, input) == Block("tool_use", "", id, name, input, "", "")
ToolResultBlock(id, content) == Block("tool_result", "", "", "", JLeaf(Undefined), id, content)

\* content: [...] of an assistant message that carries calls
CallBlocks(msg, calls) ==
  (IF msg.content # "" THEN <<TextBlock(msg.content)>> ELSE <<>>)
    \o [i \in 1..Len(calls) |->
          ToolUseBlock(IF calls[i].id # "" THEN calls[i].id ELSE "call_random",
                       calls[i].name, ParsedInput(calls[i].arguments))]

\* what one message pushes on transformedMessages
Transformed(msg) ==
  IF msg.role = "function"
  THEN [Plain("user", "") EXCEPT !.blocks =
          <<ToolResultBlock(IF msg.tool_call_id # "" THEN msg.tool_call_id ELSE msg.name,
                            msg.content)>>]
  ELSE IF msg.role = "assistant" /\ msg.function_call # <<>>
  THEN [Plain("assistant", "") EXCEPT !.blocks = CallBlocks(msg, msg.function_call)]
  ELSE IF msg.role = "assistant" /\ msg.tool_calls # <<>>
  THEN [Plain("assistant", "") EXCEPT !.blocks = CallBlocks(msg, msg.tool_calls)]
  ELSE IF msg.role = "tool"
  THEN [Plain("user", "") EXCEPT !.blocks = <<ToolResultBlock(msg.tool_call_id, msg.content)>>]
  ELSE msg

\* the calls whose arguments the loop parses for a message
ParsedCalls(msg) ==
  IF msg.role # "assistant" THEN <<>>
  ELSE IF msg.function_call # <<>> THEN msg.function_call
  ELSE msg.tool_calls

\* for (const msg of req.messages): st is [messages, system, thrown]
RECURSIVE MessageLoop(_, _, _)
MessageLoop(msgs, i, st) ==
  IF i > Len(msgs) \/ st.thrown THEN st
  ELSE LET msg == msgs[i]
           calls == ParsedCalls(msg)
       IN MessageLoop(msgs, i + 1,
            IF msg.role = "system"
            THEN [st EXCEPT !.system = Append(@, msg.content)]
            ELSE IF \E k \in 1..Len(calls) : ~ParsesOrObject(calls[k].arguments)
            THEN [st EXCEPT !.thrown = TRUE]
            ELSE [st EXCEPT !.messages = Append(@, Transformed(msg))])

\* the system texts joined by a single newline
RECURSIVE JoinSystemNewline(_)
JoinSystemNewline(texts) ==
  IF texts = <<>> THEN ""
  ELSE IF Len(texts) = 1 THEN texts[1]
  ELSE texts[1] \o "\n" \o JoinSystemNewline(Tail(texts))

\* systemMessages.join('\n\n')
RECURSIVE JoinSystem(_)
JoinSystem(texts) ==
  IF texts = <<>> THEN ""
  ELSE IF Len(texts) = 1 THEN texts[1]
  ELSE texts[1] \o "\n\n" \o JoinSystem(Tail(texts))

\* the request after transformMessages, and whether it threw
transformMessages(r) ==
  IF ~HasKey(r, "messages") THEN [req |-> r, thrown |-> FALSE]
  ELSE LET st == MessageLoop(r["messages"], 1,
                             [messages |-> <<>>, system |-> <<>>, thrown |-> FALSE])
           withSystem == IF Len(st.system) > 0
                         THEN SetKey(r, "system", JoinSystem(st.system)) ELSE r
       IN IF st.thrown THEN [req |-> r, thrown |-> TRUE]
          ELSE [req |-> SetKey(withSystem, "messages", st.messages), thrown |-> FALSE]

InboundMessages ==
  {Plain("system", "a"), Plain("system", "b"), Plain("user", "u"),
   Message("assistant", "x", "", "", <<Call("c1", "f", ArgText("{}"))>>, <<>>, <<>>),
   Message("assistant", "", "", "", <<>>,
           <<Call("c2", "g", ArgObject(JObject(NoFields))),
             Call("c3", "h", ArgText("{\"x\":1}"))>>, <<>>),
   Message("assistant", "y", "", "", <<Call("c4", "f", ArgText("{"))>>, <<>>, <<>>),
   Message("tool", "t", "", "c2", <<>>, <<>>, <<>>),
   Message("function", "r", "f", "", <<>>, <<>>, <<>>)}

RECURSIVE MessageLists(_)
MessageLists(n) ==
  IF n = 0 THEN {<<>>}
  ELSE LET shorter == MessageLists(n - 1)
       IN shorter \cup {Append(l, m) : l \in {x \in shorter : Len(x) = n - 1},
                                       m \in InboundMessages}

\* the thrown exception reaches the handler's catch: c.json({ error }, 500)
Reply(status, body) == [status |-> status, body |-> body]
ErrorBody(message) == [type |-> "error", error |-> message]

MessageInit ==
  /\ InitStreams({})
  /\ wire = [r \in {} |-> <<>>]
  /\ \E l \in MessageLists(MaxMessages) :
       inbound \in {[messages |-> l], [messages |-> l, system |-> "top"]}
  /\ req = inbound
  /\ dropped = <<>>
  /\ phase = "received"
  /\ NoUpstream

\* transformMessages(req); mapToolChoice before it returns at once, because
\* sanitizeRoot has deleted function_call
TransformMessages ==
  /\ phase = "chosen"
  /\ LET t == transformMessages(req)
     IN IF t.thrown
        THEN /\ phase' = "failed"
             /\ response' = Reply(500, ErrorBody("SyntaxError"))
             /\ UNCHANGED req
        ELSE /\ phase' = "transformed"
             /\ req' = t.req
             /\ UNCHANGED response
  /\ UNCHANGED <<task, pending, wire, delivered, cancelledAt, inbound, dropped,
                 env, payload, data>>

(***************************************************************************)
(* The upstream payload of POST /v1/messages (src/src/index.ts): model     *)
(* routing, token limit, reasoning effort and tools.  The configuration is *)
(* env; a variable that is not set is "".                                  *)
(***************************************************************************)
defaultModel == "openai/gpt-4.1"

ModelNames == {defaultModel, "openai/o3", "llama"}

\* selectedModel.includes('o3') || selectedModel.includes('gpt-5')
IsO3Model(m) == m \in {"openai/o3"}

\* parseInt of a configured limit; NaN is falsy like 0
ParseInt(text) ==
  CASE text = "100" -> 100
    [] text = "200" -> 200
    [] OTHER -> 0

Config(rm, cm, rt, ct, effort) ==
  [REASONING_MODEL |-> rm, COMPLETION_MODEL |-> cm, REASONING_MAX_TOKENS |-> rt,
   COMPLETION_MAX_TOKENS |-> ct, REASONING_EFFORT |-> effort]

ReasoningModel(e) ==
  IF Field(e, "REASONING_MODEL", "") # "" THEN e["REASONING_MODEL"] ELSE defaultModel

CompletionModel(e) ==
  IF Field(e, "COMPLETION_MODEL", "") # "" THEN e["COMPLETION_MODEL"] ELSE defaultModel

\* claudePayload.thinking ? models.reasoning : models.completion
Thinking(r) == Field(r, "thinking", FALSE)
SelectedModel(e, r) == IF Thinking(r) THEN ReasoningModel(e) ELSE CompletionModel(e)

\* model, temperature, stream
BasePayload(e, original, r) ==
  LET selectedModel == SelectedModel(e, original)
      base == [model |-> selectedModel, stream |-> Field(r, "stream", FALSE) = TRUE]
  IN IF IsO3Model(selectedModel) THEN base
     ELSE SetKey(base, "temperature", Field(r, "temperature", 1))

\* max_tokens / max_completion_tokens
WithMaxTokens(p, e, original, r) ==
  LET selectedModel == SelectedModel(e, original)
      reasoningMaxTokens == ParseInt(Field(e, "REASONING_MAX_TOKENS", ""))
      completionMaxTokens == ParseInt(Field(e, "COMPLETION_MAX_TOKENS", ""))
      maxTokensValue ==
        IF selectedModel = ReasoningModel(e) /\ reasoningMaxTokens # 0
        THEN reasoningMaxTokens
        ELSE IF selectedModel = CompletionModel(e) /\ completionMaxTokens # 0
        THEN completionMaxTokens
        ELSE Field(r, "max_tokens", 0)
  IN IF ~HasKey(r, "max_tokens") /\ maxTokensValue = 0 THEN p
     ELSE IF IsO3Model(selectedModel) THEN SetKey(p, "max_completion_tokens", maxTokensValue)
     ELSE SetKey(p, "max_tokens", maxTokensValue)

\* if (selectedModel === models.reasoning && REASONING_EFFORT) ...
WithReasoningEffort(p, e, original) ==
  IF SelectedModel(e, original) = ReasoningModel(e) /\ Field(e, "REASONING_EFFORT", "") # ""
  THEN SetKey(p, "reasoning_effort", e["REASONING_EFFORT"])
  ELSE p

\* JSON.stringify of the input of a tool_use block
Stringify(input) ==
  CASE input = JObject(NoFields) -> "{}"
    [] input = ParseJson("{\"x\":1}") -> "{\"x\":1}"
    [] OTHER -> Undefined

\* a message of the upstream list; a member it lacks is Undefined or <<>>,
\* a content of null is "null"
Out(role, content, tool_call_id, tool_calls) ==
  [role |-> role, content |-> content, tool_call_id |-> tool_call_id,
   tool_calls |-> tool_calls]

\* textParts.join(' ')
RECURSIVE JoinSpace(_)
JoinSpace(texts) ==
  IF texts = <<>> THEN ""
  ELSE IF Len(texts) = 1 THEN texts[1]
  ELSE texts[1] \o " " \o JoinSpace(Tail(texts))

TextParts(msg) ==
  LET texts == SelectSeq(msg.blocks, LAMBDA block : block.type = "text")
  IN [i \in 1..Len(texts) |-> texts[i].text]

ToolResults(msg) ==
  LET results == SelectSeq(msg.blocks, LAMBDA block : block.type = "tool_result")
  IN [i \in 1..Len(results) |->
        Out("tool", results[i].content, results[i].tool_use_id, <<>>)]

ToolCalls(msg) ==
  LET uses == SelectSeq(msg.blocks, LAMBDA block : block.type = "tool_use")
  IN [i \in 1..Len(uses) |->
        [id |-> uses[i].id, type |-> "function",
         function |-> [name |-> uses[i].name, arguments |-> Stringify(uses[i].input)]]]

\* a user message that puts its text before its tool results
UserMessagesTextFirst(msg) ==
  IF msg.blocks = <<>> THEN <<Out("user", msg.content, Undefined, <<>>)>>
  ELSE (IF TextParts(msg) # <<>>
        THEN <<Out("user", JoinSpace(TextParts(msg)), Undefined, <<>>)>> ELSE <<>>)
         \o ToolResults(msg)

\* what a user message pushes on messages
UserMessages(msg) ==
  IF msg.blocks = <<>> THEN <<Out("user", msg.content, Undefined, <<>>)>>
  ELSE ToolResults(msg)
         \o (IF TextParts(msg) # <<>>
             THEN <<Out("user", JoinSpace(TextParts(msg)), Undefined, <<>>)>> ELSE <<>>)

\* an assistant message that leaves content out when it has no text
AssistantMessagesNoNull(msg) ==
  IF msg.blocks = <<>> THEN <<Out("assistant", msg.content, Undefined, <<>>)>>
  ELSE IF TextParts(msg) = <<>> /\ ToolCalls(msg) = <<>> THEN <<>>
  ELSE <<Out("assistant",
             IF TextParts(msg) # <<>> THEN JoinSpace(TextParts(msg)) ELSE Undefined,
             Undefined, ToolCalls(msg))>>

\* what an assistant message pushes on messages
AssistantMessages(msg) ==
  IF msg.blocks = <<>> THEN <<Out("assistant", msg.content, Undefined, <<>>)>>
  ELSE IF TextParts(msg) = <<>> /\ ToolCalls(msg) = <<>> THEN <<>>
  ELSE <<Out("assistant",
             IF TextParts(msg) # <<>> THEN JoinSpace(TextParts(msg)) ELSE Null,
             Undefined, ToolCalls(msg))>>

\* the messages of the upstream payload: the system string, then the loop
\* over claudeRequest.messages
ConvertMessages(r) ==
  LET msgs == Field(r, "messages", <<>>)
      system == Field(r, "system", "")
  IN (IF system # "" THEN <<Out("system", system, Undefined, <<>>)>> ELSE <<>>)
       \o Flatten([i \in 1..Len(msgs) |->
                     IF msgs[i].role = "user" THEN UserMessages(msgs[i])
                     ELSE IF msgs[i].role = "assistant" THEN AssistantMessages(msgs[i])
                     ELSE <<>>])

WithMessages(p, r) == SetKey(p, "messages", ConvertMessages(r))

\* if (claudeRequest.tool_choice) openaiPayload.tool_choice = ...; a value
\* of undefined is left out of the JSON sent
WithToolChoice(p, r) ==
  IF ~HasKey(r, "tool_choice") THEN p
  ELSE LET type == r["tool_choice"].type
           name == r["tool_choice"].name
       IN IF type = "tool" /\ name \notin {Undefined, ""}
          THEN SetKey(p, "tool_choice", ChoiceObject(name))
          ELSE IF type \in {"none", "auto"} THEN SetKey(p, "tool_choice", ChoiceText(type))
          ELSE p

\* if (tools.length > 0) openaiPayload.tools = tools
WithTools(p, r) ==
  LET tools == UpstreamTools(r)
  IN IF Len(tools) > 0 THEN SetKey(p, "tools", tools) ELSE p

\* openaiPayload, from the configuration, the request as received and the
\* request as transformed
OpenaiPayload(e, original, r) ==
  WithTools(
    WithToolChoice(
      WithReasoningEffort(
        WithMaxTokens(WithMessages(BasePayload(e, original, r), r), e, original, r),
        e, original), r), r)

BuildPayload ==
  /\ phase = "transformed"
  /\ payload' = OpenaiPayload(env, inbound, req)
  /\ phase' = "built"
  /\ UNCHANGED <<task, pending, wire, delivered, cancelledAt, inbound, req, dropped,
                 env, data, response>>

PipelineNext == Sanitize \/ MapTools \/ MapToolChoice \/ TransformMessages \/ BuildPayload

ToolSpec == ToolInit /\ [][PipelineNext]_vars

MessageSpec == MessageInit /\ [][PipelineNext]_vars

MaxDeclarations == 2

\* a legacy function declaration: { name, description, parameters }
Function(name, parameters) == ToolA(name, "d", parameters).function

DeclaredSchemas == {JObject(NoFields), JObject([x \in {"type"} |-> JLeaf("object")])}

RECURSIVE Lists(_, _)
Lists(S, n) ==
  IF n = 0 THEN {<<>>}
  ELSE Lists(S, n - 1)
         \cup {Append(l, x) : l \in {y \in Lists(S, n - 1) : Len(y) = n - 1}, x \in S}

\* requests that declare tools and legacy functions
DeclInit ==
  /\ InitStreams({})
  /\ wire = [r \in {} |-> <<>>]
  /\ \E ts \in Lists({ToolA(n, "d", p) : n \in {"fetch", "search"}, p \in DeclaredSchemas},
                      MaxDeclarations),
        fs \in Lists({Function(n, p) : n \in {"lookup", "save"}, p \in DeclaredSchemas},
                      MaxDeclarations) :
       inbound \in {[tools |-> ts, functions |-> fs], [tools |-> ts], [functions |-> fs]}
  /\ req = inbound
  /\ dropped = <<>>
  /\ phase = "received"
  /\ NoUpstream

DeclSpec == DeclInit /\ [][PipelineNext]_vars

FunctionCalls ==
  {ChoiceText(t) : t \in {"none", "auto", "required", ""}}
    \cup {ChoiceObject(n) : n \in {"fetch", "search", Undefined}}

ToolChoices ==
  {ToolChoice("auto", Undefined), ToolChoice("none", Undefined), ToolChoice("any", Undefined),
   ToolChoice("tool", "fetch"), ToolChoice("tool", Undefined)}

\* mapToolChoice on its own: the request is handed to it as it is, with a
\* function_call, a tool_choice, both or neither
ChoiceInit ==
  /\ InitStreams({})
  /\ wire = [r \in {} |-> <<>>]
  /\ \E base \in {EmptyRequest} \cup {[tool_choice |-> c] : c \in ToolChoices} :
       inbound \in {base} \cup {SetKey(base, "function_call", fc) : fc \in FunctionCalls}
  /\ req = inbound
  /\ dropped = <<>>
  /\ phase = "mapped"
  /\ NoUpstream

ChoiceNext == MapToolChoice \/ TransformMessages \/ BuildPayload

ChoiceSpec == ChoiceInit /\ [][ChoiceNext]_vars

MaxBlocks == 3

UserBlocks ==
  {TextBlock("a"), TextBlock("b"), ToolResultBlock("c1", "r1"), ToolResultBlock("c2", "r2"),
   Block("image", "", "", "", JLeaf(Undefined), "", "")}

AssistantBlocks ==
  {TextBlock("a"), TextBlock("b"), ToolUseBlock("c1", "f", JObject(NoFields)),
   ToolUseBlock("c2", "g", ParseJson("{\"x\":1}")),
   Block("thinking", "", "", "", JLeaf(Undefined), "", "")}

BlockMessages ==
  {[Plain("user", "") EXCEPT !.blocks = l] : l \in Lists(UserBlocks, MaxBlocks) \ {<<>>}}
    \cup {[Plain("assistant", "") EXCEPT !.blocks = l] :
            l \in Lists(AssistantBlocks, MaxBlocks) \ {<<>>}}

\* requests of format B: one message with a content list, alone, after a
\* user message or before an assistant message with plain text
ConvInit ==
  /\ InitStreams({})
  /\ wire = [r \in {} |-> <<>>]
  /\ \E m \in BlockMessages :
       inbound \in {[messages |-> <<m>>], [messages |-> <<Plain("user", "u"), m>>],
                    [messages |-> <<m, Plain("assistant", "x")>>, system |-> "top"]}
  /\ req = inbound
  /\ dropped = <<>>
  /\ phase = "received"
  /\ NoUpstream

ConvSpec == ConvInit /\ [][PipelineNext]_vars

Configs ==
  {Config(rm, cm, rt, ct, effort) :
     rm \in {"", "openai/o3"}, cm \in {"", "llama", "openai/o3"},
     rt \in {"", "100"}, ct \in {"", "200", "many"}, effort \in {"", "high"}}

RoutedRequests ==
  {r \in InboundRequests : DOMAIN r \subseteq {"max_tokens", "seed"}}

RouteInit ==
  /\ InitStreams({})
  /\ wire = [r \in {} |-> <<>>]
  /\ \E r \in RoutedRequests :
       inbound \in {r, SetKey(r, "thinking", TRUE), SetKey(r, "thinking", FALSE)}
  /\ req = inbound
  /\ dropped = <<>>
  /\ phase = "received"
  /\ payload = EmptyRequest
  /\ data = EmptyRequest
  /\ response = EmptyRequest
  /\ env \in Configs

RouteSpec == RouteInit /\ [][PipelineNext]_vars

(***************************************************************************)
(* The reply to a request that is not streamed (src/src/index.ts): the     *)
(* upstream's answer is data = [ok, status, text, body]; an absent string  *)
(* of the body is Undefined and JSON null is Null, an absent object or     *)
(* array is None and a present one Some(v).                                *)
(***************************************************************************)
None == <<>>
Some(v) == <<v>>

MaxToolCalls == 2

\* a value that is undefined, null or ''
Falsy(v) == v \in {Undefined, Null, ""}

NoArguments == ArgObject(JLeaf(Undefined))

TruthyArguments(a) == IF a.isString THEN a.text # "" ELSE a # NoArguments

\* a tool call of the upstream: { id, function: { name, arguments } }, or
\* name and arguments on the call itself
UpstreamCall(id, fname, farguments, name, arguments) ==
  [id |-> id, function |-> [name |-> fname, arguments |-> farguments],
   name |-> name, arguments |-> arguments]

NewCall(id, name, arguments) == UpstreamCall(id, name, arguments, Undefined, NoArguments)
OldCall(id, name, arguments) == UpstreamCall(id, Undefined, NoArguments, name, arguments)

\* toolCall.function?.arguments || toolCall.arguments
ToolArguments(toolCall) ==
  IF TruthyArguments(toolCall.function.arguments)
  THEN toolCall.function.arguments ELSE toolCall.arguments

\* one content block of the loop over tool_calls
ToolUseOf(toolCall) ==
  ToolUseBlock(IF Falsy(toolCall.id) THEN "tool_now" ELSE toolCall.id,
               IF Falsy(toolCall.function.name) THEN toolCall.name
               ELSE toolCall.function.name,
               ParsedInput(ToolArguments(toolCall)))

\* a mapping that passes the values it does not know
mapStopReasonPassing(finishReason) ==
  CASE finishReason = "tool_calls" -> "tool_use"
    [] finishReason = "stop" -> "end_turn"
    [] OTHER -> finishReason

mapStopReason(finishReason) ==
  CASE finishReason = "tool_calls" -> "tool_use"
    [] finishReason = "stop" -> "end_turn"
    [] finishReason = "length" -> "max_tokens"
    [] OTHER -> "end_turn"

\* data.id.replace('chatcmpl', 'msg'), or a random identifier
ResponseId(id) ==
  CASE Falsy(id) -> "msg_random"
    [] id = "chatcmpl-1" -> "msg-1"
    [] OTHER -> id

Count(usage, k) ==
  IF usage = None \/ ~HasKey(usage[1], k) THEN 0 ELSE usage[1][k]

\* the content blocks of choice.message
ContentBlocks(openaiMessage) ==
  LET calls == IF openaiMessage.tool_calls = None
               THEN <<>> ELSE openaiMessage.tool_calls[1]
  IN (IF Falsy(openaiMessage.content) THEN <<>> ELSE <<TextBlock(openaiMessage.content)>>)
       \o [i \in 1..Len(calls) |-> ToolUseOf(calls[i])]

ClaudeResponse(p, body) ==
  LET choice == body.choices[1][1]
  IN [id |-> ResponseId(body.id), type |-> "message", role |-> "assistant",
      model |-> p["model"], content |-> ContentBlocks(choice.message),
      stop_reason |-> mapStopReason(choice.finish_reason), stop_sequence |-> Null,
      usage |-> [input_tokens |-> Count(body.usage, "prompt_tokens"),
                 output_tokens |-> Count(body.usage, "completion_tokens")]]

\* the exception the assembly throws, "" when it throws none
Thrown(body) ==
  IF body.choices = None \/ body.choices[1] = <<>> THEN "TypeError"
  ELSE LET calls == body.choices[1][1].message.tool_calls
       IN IF calls # None
             /\ \E i \in 1..Len(calls[1]) : ~ParsesOrObject(ToolArguments(calls[1][i]))
          THEN "SyntaxError" ELSE ""

\* data.error.message || 'Unknown error'
ErrorMessage(error) ==
  IF ~HasKey(error, "message") \/ Falsy(error["message"]) THEN "Unknown error"
  ELSE error["message"]

\* a reply that does not look at data.error
ReplyIgnoringError(p, body) ==
  IF Thrown(body) # "" THEN Reply(500, ErrorBody(Thrown(body)))
  ELSE Reply(200, ClaudeResponse(p, body))

\* lines 309-388, and the catch of the handler
NonStreamingReplyOf(p, body) ==
  IF body.error # None THEN Reply(500, ErrorBody(ErrorMessage(body.error[1])))
  ELSE IF Thrown(body) # "" THEN Reply(500, ErrorBody(Thrown(body)))
  ELSE Reply(200, ClaudeResponse(p, body))

\* if (!openaiResponse.ok) return c.json({ error: errorDetails }, status)
UpstreamFailure ==
  /\ phase = "built"
  /\ data # EmptyRequest
  /\ ~data.ok
  /\ response' = Reply(data.status, ErrorBody(data.text))
  /\ phase' = "replied"
  /\ UNCHANGED <<task, pending, wire, delivered, cancelledAt, inbound, req, dropped,
                 env, payload, data>>

NonStreamingReply ==
  /\ phase = "built"
  /\ data # EmptyRequest
  /\ data.ok
  /\ ~payload["stream"]
  /\ response' = NonStreamingReplyOf(payload, data.body)
  /\ phase' = "replied"
  /\ UNCHANGED <<task, pending, wire, delivered, cancelledAt, inbound, req, dropped,
                 env, payload, data>>

UpstreamArguments ==
  {ArgText("{\"x\":1}"), ArgText("{"), ArgText(""), ArgObject(JObject(NoFields))}

UpstreamCalls ==
  {NewCall("call_1", "fetch", a) : a \in UpstreamArguments}
    \cup {OldCall(Undefined, "fetch", ArgObject(JObject(NoFields)))}

RECURSIVE CallLists(_)
CallLists(n) ==
  IF n = 0 THEN {<<>>}
  ELSE CallLists(n - 1)
         \cup {Append(l, c) : l \in {x \in CallLists(n - 1) : Len(x) = n - 1},
                              c \in UpstreamCalls}

UpstreamMessages ==
  [role : {"assistant"}, content : {Undefined, Null, "", "hi"},
   tool_calls : {None} \cup {Some(l) : l \in CallLists(MaxToolCalls)}]

UpstreamChoices ==
  [message : UpstreamMessages,
   finish_reason : {"tool_calls", "stop", "length", "content_filter", Null, Undefined}]

UpstreamErrors ==
  {[message |-> "boom"], [message |-> ""], [code |-> "429"]}

UpstreamUsages ==
  {None, Some([prompt_tokens |-> 3, completion_tokens |-> 1]), Some([prompt_tokens |-> 3])}

Body(id, error, choices, usage) ==
  [id |-> id, error |-> error, choices |-> choices, usage |-> usage]

UpstreamBodies ==
  {Body(id, None, Some(<<c>>), u) :
     id \in {Undefined, "chatcmpl-1"}, c \in UpstreamChoices, u \in UpstreamUsages}
    \cup {Body(Undefined, Some(e), None, None) : e \in UpstreamErrors}
    \cup {Body("chatcmpl-1", Some(e), Some(<<c>>), None) :
            e \in UpstreamErrors,
            c \in {x \in UpstreamChoices :
                     x.message.tool_calls = None /\ x.finish_reason = "stop"}}
    \cup {Body("chatcmpl-1", None, Some(<<>>), None)}

Answer(ok, status, text, body) == [ok |-> ok, status |-> status, text |-> text, body |-> body]

ReplyInit ==
  /\ InitStreams({})
  /\ wire = [r \in {} |-> <<>>]
  /\ inbound = EmptyRequest
  /\ req = inbound
  /\ dropped = <<>>
  /\ env = EmptyRequest
  /\ phase = "built"
  /\ payload = [model |-> defaultModel, stream |-> FALSE]
  /\ \/ \E b \in UpstreamBodies : data = Answer(TRUE, 200, "", b)
     \/ data = Answer(FALSE, 429, "rate limited", Body(Undefined, None, None, None))
  /\ response = EmptyRequest

ReplyNext == UpstreamFailure \/ NonStreamingReply

ReplySpec == ReplyInit /\ [][ReplyNext]_vars

(***************************************************************************)
(* Vocabulary of the properties.                                           *)
(***************************************************************************)
\* the task that runs start() alone on a log of settled reads
RECURSIVE Run(_, _)
Run(s, log) ==
  IF log = <<>> \/ s.pc = "done" THEN s
  ELSE Run(OnRead(s, Head(log)), Tail(log))

\* the settled reads start() has already consumed
Processed(r) ==
  IF pending[r].kind = "none" THEN delivered[r]
  ELSE SubSeq(delivered[r], 1, Len(delivered[r]) - 1)

\* what the first line of a one-frame chunk carries: "[DONE]", a JSON
\* payload (parsed, or "bad"), or nothing ("none")
NoPayload == [Chunk(<<>>, FALSE, "", "", "", FALSE, NoToolCalls) EXCEPT !.json = "none"]
DonePayload == [Chunk(<<>>, FALSE, "", "", "", FALSE, NoToolCalls) EXCEPT !.json = "[DONE]"]

Payload(res) ==
  IF res.kind # "chunk" THEN NoPayload
  ELSE LET line == Trim(SplitNL(res.value)[1])
       IN IF ~StartsWithData(line) THEN NoPayload
          ELSE IF IsDone(StripData(line)) THEN DonePayload
          ELSE JSONParse(StripData(line))

IsDoneFrame(res) == Payload(res).json = "[DONE]"

At(out, type) == {k \in 1..Len(out) : out[k].type = type}
AtIndex(out, type, i) == {k \in At(out, type) : out[k].index = i}

BlockEvents == {"content_block_start", "content_block_delta", "content_block_stop"}
BodyEvents == BlockEvents \cup {"message_delta", "message_stop"}

RECURSIVE JoinText(_)
JoinText(evs) == IF evs = <<>> THEN "" ELSE Head(evs).text \o JoinText(Tail(evs))

(***************************************************************************)
(* C1: for a stream with a text delta and tool-call deltas on two distinct *)
(* tool-call indices that ends with [DONE], every content-block index has  *)
(* exactly one content_block_start, before all its content_block_delta,    *)
(* which are before its exactly one content_block_stop; and message_stop   *)
(* is the last event.                                                      *)
(***************************************************************************)
HasTextDelta(res) == Payload(res).json = "object" /\ Payload(res).content # ""

ToolIndicesOf(res) ==
  LET p == Payload(res)
  IN IF p.json = "object" /\ p.hasToolCalls
     THEN {p.tool_calls[k].index : k \in 1..Len(p.tool_calls)}
     ELSE {}

TextAndTwoToolsThenDone(log) ==
  /\ Len(log) > 0
  /\ IsDoneFrame(log[Len(log)])
  /\ \E i \in 1..Len(log) : HasTextDelta(log[i])
  /\ Cardinality(UNION {ToolIndicesOf(log[i]) : i \in 1..Len(log)}) >= 2

WellFramed(out, i) ==
  /\ Cardinality(AtIndex(out, "content_block_start", i)) = 1
  /\ Cardinality(AtIndex(out, "content_block_stop", i)) = 1
  /\ \A a \in AtIndex(out, "content_block_start", i) :
       /\ \A d \in AtIndex(out, "content_block_delta", i) : a < d
       /\ \A z \in AtIndex(out, "content_block_stop", i) : a < z
  /\ \A d \in AtIndex(out, "content_block_delta", i) :
       \A z \in AtIndex(out, "content_block_stop", i) : d < z

SseEvents(out) == SelectSeq(out, LAMBDA e : e.type # "raw")

MessageStopIsLast(out) ==
  LET evs == SseEvents(out)
  IN Len(evs) > 0 /\ evs[Len(evs)].type = "message_stop"

C1_BlockOrdering ==
  \A r \in Requests :
    TextAndTwoToolsThenDone(Processed(r)) =>
      /\ \A k \in 1..Len(task[r].out) :
           task[r].out[k].type \in BlockEvents => WellFramed(task[r].out, task[r].out[k].index)
      /\ MessageStopIsLast(task[r].out)

(***************************************************************************)
(* C2: message_start is the first event: no content-block event,           *)
(* message_delta or message_stop is emitted before message_start.          *)
(***************************************************************************)
C2_MessageStartFirst ==
  \A r \in Requests :
    \A k \in 1..Len(task[r].out) :
      task[r].out[k].type \in BodyEvents =>
        \E j \in 1..(k - 1) : task[r].out[j].type = "message_start"

(***************************************************************************)
(* C3: message_start is emitted at most once, it is emitted when the first *)
(* frame that parses as JSON without an error object is processed, ping is *)
(* the next event, and no later frame emits either again.                  *)
(***************************************************************************)
ParsesWithoutError(res) == Payload(res).json \in {"object", "null"} /\ ~Payload(res).error

MessageStartOnce(out) ==
  /\ Cardinality(At(out, "message_start")) <= 1
  /\ Cardinality(At(out, "ping")) <= 1
  /\ \A k \in At(out, "message_start") : k < Len(out) /\ out[k + 1].type = "ping"
  /\ \A k \in At(out, "ping") : k > 1 /\ out[k - 1].type = "message_start"

\* the claim as stated
C3_StartOnFirstParsedFrame ==
  \A r \in Requests :
    /\ MessageStartOnce(task[r].out)
    /\ (\E i \in 1..Len(Processed(r)) : ParsesWithoutError(Processed(r)[i]))
         => At(task[r].out, "message_start") # {}

\* C3 as amended: the frame must parse to a JSON value other than null
ParsesToValueWithoutError(res) == Payload(res).json = "object" /\ ~Payload(res).error

C3_StartOnFirstValueFrame ==
  \A r \in Requests :
    /\ MessageStartOnce(task[r].out)
    /\ (\E i \in 1..Len(Processed(r)) : ParsesToValueWithoutError(Processed(r)[i]))
         <=> At(task[r].out, "message_start") # {}

C3_Witness ==
  /\ pending[1].kind = "none"
  /\ Len(delivered[1]) >= 3
  /\ Payload(delivered[1][1]).json = "null"
  /\ ParsesToValueWithoutError(delivered[1][2])
  /\ ParsesToValueWithoutError(delivered[1][3])
  /\ At(task[1].out, "message_start") = {1}

(***************************************************************************)
(* C4: for every tool-call index, the partial_json values of the           *)
(* input_json_delta events emitted for it, concatenated in emission order, *)
(* equal the concatenation of the argument fragments received for it; no   *)
(* partial_json is empty (so none repeats text already sent).              *)
(***************************************************************************)
\* the argument fragment a tool-call delta carries
Fragment(tc) == IF tc.fargs # "" THEN tc.fargs ELSE tc.args

\* the tool-call deltas of the frames of a log, in arrival order
RECURSIVE ToolCallsOf(_)
ToolCallsOf(log) ==
  IF log = <<>> THEN <<>>
  ELSE LET p == Payload(Head(log))
           here == IF p.json = "object" /\ ~p.error /\ p.choices /\ p.hasToolCalls
                   THEN p.tool_calls ELSE <<>>
       IN here \o ToolCallsOf(Tail(log))

RECURSIVE JoinFragments(_)
JoinFragments(tcs) ==
  IF tcs = <<>> THEN "" ELSE Fragment(Head(tcs)) \o JoinFragments(Tail(tcs))

EmittedArguments(out, idx) ==
  JoinText(SelectSeq(out, LAMBDA e : e.kind = "input_json_delta" /\ e.index = idx))

ToolIndices == UNION {ToolIndicesOf(ChunkResult(f)) : f \in AllFrames}

C4_ArgumentDeltas ==
  \A r \in Requests :
    /\ LET tcs == ToolCallsOf(Processed(r))
       IN \A idx \in ToolIndices :
            EmittedArguments(task[r].out, idx)
              = JoinFragments(SelectSeq(tcs, LAMBDA tc : tc.index = idx))
    /\ \A k \in 1..Len(task[r].out) :
         task[r].out[k].kind = "input_json_delta" => task[r].out[k].text # ""

C4_Witness ==
  /\ pending[1].kind = "none"
  /\ Cardinality({k \in At(task[1].out, "content_block_delta") :
                    task[1].out[k].kind = "input_json_delta" /\ task[1].out[k].index = 0}) = 2
  /\ EmittedArguments(task[1].out, 0) = "{x:1}"

(***************************************************************************)
(* C6: once a frame that carries an error object has been processed, the   *)
(* output stream is errored and nothing was emitted for that frame or for  *)
(* any later one.                                                          *)
(***************************************************************************)
IsErrorFrame(res) == Payload(res).json = "object" /\ Payload(res).error

C6_ErrorFrameAborts ==
  \A r \in Requests :
    \A k \in 1..Len(Processed(r)) :
      (IsErrorFrame(Processed(r)[k]) /\ \A j \in 1..(k - 1) : ~IsErrorFrame(Processed(r)[j]))
        => /\ task[r].ctrl = "errored"
           /\ task[r].out = Run(InitTask, SubSeq(Processed(r), 1, k - 1)).out

(***************************************************************************)
(* C5: however a well-formed body is cut into chunks, the events emitted   *)
(* are those of the same body delivered one whole line per chunk; a line   *)
(* whose newline has not arrived yet contributes nothing.                  *)
(***************************************************************************)
\* the lines of a text that are terminated by a newline
WholeLines(text) ==
  LET parts == SplitNL(text)
  IN SubSeq(parts, 1, Len(parts) - 1)

\* the log of the same reads with the text delivered one whole line per chunk
LineAligned(log) ==
  LET lines == WholeLines(Received(SelectSeq(log, LAMBDA res : res.kind = "chunk")))
  IN [i \in 1..Len(lines) |-> ChunkResult(lines[i] \o <<NL>>)]
       \o SelectSeq(log, LAMBDA res : res.kind # "chunk")

C5_ChunkingInvariant ==
  \A r \in Requests :
    pending[r].kind = "none" =>
      LET whole == Run(InitTask, LineAligned(delivered[r]))
      IN task[r].out = whole.out /\ task[r].ctrl = whole.ctrl

\* a chunk ended inside the second frame's line, after the first frame's events
C5_Witness ==
  /\ pending[1].kind = "none"
  /\ task[1].buffer = <<"data:", " ", "tool0_q">>
  /\ EmittedArguments(task[1].out, 0) = "{x:"

(***************************************************************************)
(* C7: once the upstream body has ended or a read has failed, start()      *)
(* finishes; and whenever start() has finished, for whatever reason, the   *)
(* output stream is closed or errored and no exception has left start(),   *)
(* the repeated controller.close() included.                               *)
(***************************************************************************)
C7_StreamTerminates ==
  /\ (pending[1].kind \in {"end", "fail"}) ~> (task[1].pc = "done")
  /\ [](task[1].pc = "done" =>
          task[1].ctrl \in {"closed", "errored"} /\ ~task[1].fault)

\* a failed read errored the stream, and the close after it was swallowed
C7_Witness ==
  /\ task[1].pc = "done"
  /\ task[1].ctrl = "errored"
  /\ Len(task[1].out) > 0

(***************************************************************************)
(* C8: after the client has disconnected, the read loop stops: at most the *)
(* read that was in flight at the disconnect is still consumed.  (The      *)
(* claim allows not even that one.)                                        *)
(***************************************************************************)
C8_CancelStopsReading ==
  \A r \in Requests :
    cancelledAt[r] >= 0 => task[r].nread <= cancelledAt[r] + 1

(***************************************************************************)
(* C9: with two requests in flight and their reads settling in any order,  *)
(* the state and the events of each request are those of the request run   *)
(* alone on its own reads.                                                 *)
(***************************************************************************)
C9_RequestsIndependent ==
  \A r \in Requests : task[r] = Run(InitTask, Processed(r))

\* both requests are mid-stream, on different inputs
C9_Witness ==
  /\ task[1].pc = "await" /\ task[2].pc = "await"
  /\ task[1].textBlockStarted /\ ~task[2].isSucceeded
  /\ Len(delivered[2]) > 0
  /\ pending[2].kind = "chunk"

(***************************************************************************)
(* C10: after sanitizeRoot, every unsupported parameter that was present   *)
(* is in the dropped list exactly once and is no key of the request any    *)
(* more; a parameter that was not present is not in the dropped list.      *)
(***************************************************************************)
Unsupported == {DROP_KEYS[i] : i \in 1..Len(DROP_KEYS)}

Occurrences(list, k) == Cardinality({i \in 1..Len(list) : list[i] = k})

C10_DroppedVisible ==
  phase = "sanitized" =>
    /\ \A k \in Unsupported \cap DOMAIN inbound :
         Occurrences(dropped, k) = 1 /\ k \notin DOMAIN req
    /\ \A i \in 1..Len(dropped) : dropped[i] \in DOMAIN inbound

C10_Witness ==
  /\ phase = "sanitized"
  /\ DOMAIN inbound = {"presence_penalty", "user"}
  /\ inbound["user"] = "u1"
  /\ dropped = <<"user", "presence_penalty">>

(***************************************************************************)
(* C11: a tool declaration in format A, mapped by mapTools and then by the *)
(* handler, comes out in format A with the same name, the same description *)
(* and the parameters removeUriFormat gives for the original schema.       *)
(***************************************************************************)
C11_ToolRoundTrip ==
  phase = "built" =>
    LET original == inbound["tools"][1]
    IN /\ HasKey(payload, "tools")
       /\ payload["tools"] =
            <<ToolA(original.function.name, original.function.description,
                    removeUriFormat(original.function.parameters))>>

(***************************************************************************)
(* C12: removeUriFormat applied to its own result changes nothing.         *)
(***************************************************************************)
C12_StripIdempotent ==
  phase \in {"mapped", "chosen", "transformed", "built"} =>
    removeUriFormat(req["tools"][1].input_schema) = req["tools"][1].input_schema

(***************************************************************************)
(* C13: after transformMessages no message of the list has role system,    *)
(* the other messages are there in their original order, and, when there   *)
(* were system messages, the request's system string is their contents in  *)
(* their original order joined by a blank line.                            *)
(***************************************************************************)
\* what tells a message from the others: its text and the ids it carries
Identity(msg) ==
  <<msg.content, msg.tool_call_id, msg.name,
    [i \in 1..Len(msg.function_call) |-> msg.function_call[i].id],
    [i \in 1..Len(msg.tool_calls) |-> msg.tool_calls[i].id]>>

\* the same of a transformed message
BlockIdentity(msg) ==
  LET texts == SelectSeq(msg.blocks, LAMBDA b : b.type = "text")
      uses == SelectSeq(msg.blocks, LAMBDA b : b.type = "tool_use")
      results == SelectSeq(msg.blocks, LAMBDA b : b.type = "tool_result")
  IN IF msg.blocks = <<>> THEN {Identity(msg)}
     ELSE {id \in {Identity(m) : m \in InboundMessages} :
             /\ id[1] = (IF results # <<>> THEN results[1].content
                         ELSE IF texts # <<>> THEN texts[1].text ELSE "")
             /\ \A i \in 1..Len(results) : results[i].tool_use_id \in {id[2], id[3]}
             /\ id[4] \o id[5] = [i \in 1..Len(uses) |-> uses[i].id]}

SystemTexts(msgs) ==
  LET sys == SelectSeq(msgs, LAMBDA m : m.role = "system")
  IN [i \in 1..Len(sys) |-> sys[i].content]

\* texts with a blank line between each two
RECURSIVE BlankLineJoined(_)
BlankLineJoined(texts) ==
  IF Len(texts) = 0 THEN ""
  ELSE IF Len(texts) = 1 THEN texts[1]
  ELSE BlankLineJoined(SubSeq(texts, 1, Len(texts) - 1)) \o "\n\n" \o texts[Len(texts)]

C13_SystemExtracted ==
  phase = "transformed" =>
    LET before == inbound["messages"]
        others == SelectSeq(before, LAMBDA m : m.role # "system")
        after == req["messages"]
    IN /\ \A i \in 1..Len(after) : after[i].role # "system"
       /\ Len(after) = Len(others)
       /\ \A i \in 1..Len(after) : Identity(others[i]) \in BlockIdentity(after[i])
       /\ SystemTexts(before) # <<>> =>
            HasKey(req, "system") /\ req["system"] = BlankLineJoined(SystemTexts(before))
       /\ SystemTexts(before) = <<>> =>
            HasKey(req, "system") = HasKey(inbound, "system")

\* system 'a', a user message, system 'b'
C13_Witness ==
  /\ phase = "transformed"
  /\ Len(inbound["messages"]) = 3
  /\ inbound["messages"][1] = Plain("system", "a")
  /\ inbound["messages"][2] = Plain("user", "u")
  /\ inbound["messages"][3] = Plain("system", "b")
  /\ req["system"] = "a\n\nb"
  /\ req["messages"] = <<Plain("user", "u")>>

(***************************************************************************)
(* C14: the upstream payload carries the reasoning model, the              *)
(* REASONING_MAX_TOKENS override and reasoning_effort exactly when the     *)
(* request's thinking flag is set, and the completion model and the        *)
(* COMPLETION_MAX_TOKENS override exactly when it is not; whatever the     *)
(* configuration and the other request fields are.                         *)
(***************************************************************************)
\* the token limit the payload carries, 0 when it carries none
PayloadMaxTokens(p) ==
  IF HasKey(p, "max_tokens") THEN p["max_tokens"]
  ELSE Field(p, "max_completion_tokens", 0)

C14_ThinkingSelects ==
  phase = "built" =>
    LET thinking == HasKey(inbound, "thinking") /\ inbound["thinking"]
        reasoningLimit == ParseInt(env["REASONING_MAX_TOKENS"])
        completionLimit == ParseInt(env["COMPLETION_MAX_TOKENS"])
    IN /\ payload["model"] = (IF thinking THEN ReasoningModel(env) ELSE CompletionModel(env))
       /\ HasKey(payload, "reasoning_effort") <=> (thinking /\ env["REASONING_EFFORT"] # "")
       /\ PayloadMaxTokens(payload) =
            (IF thinking /\ reasoningLimit # 0 THEN reasoningLimit
             ELSE IF ~thinking /\ completionLimit # 0 THEN completionLimit
             ELSE req["max_tokens"])

(***************************************************************************)
(* C15: mapStopReason is total: tool_calls gives tool_use, stop end_turn,  *)
(* length max_tokens and every other value, undefined and null included,   *)
(* end_turn; the stop_reason of a non-streaming response is mapStopReason  *)
(* of the first choice's finish_reason.                                    *)
(***************************************************************************)
Assembled == phase = "replied" /\ response.status = 200

C15_StopReasonMapped ==
  Assembled =>
    LET finish == data.body.choices[1][1].finish_reason
    IN /\ response.body.stop_reason = mapStopReason(finish)
       /\ response.body.stop_reason =
            (IF finish = "tool_calls" THEN "tool_use"
             ELSE IF finish = "length" THEN "max_tokens" ELSE "end_turn")
       /\ response.body.stop_reason \in {"tool_use", "end_turn", "max_tokens"}

C15_Witness ==
  /\ Assembled
  /\ data.body.choices[1][1].finish_reason = Null
  /\ response.body.stop_reason = "end_turn"

(***************************************************************************)
(* C16: for a complete upstream response without an error object, the     *)
(* content of the assembled response is one text block carrying the        *)
(* message content exactly when that content is a non-null, non-empty      *)
(* string, then one tool_use block per entry of tool_calls, in order,      *)
(* whose input is the argument string parsed as JSON or the argument       *)
(* object as it is; the usage counts are the upstream's, or 0.             *)
(***************************************************************************)
\* the arguments a call was given, in function or on the call itself
GivenArguments(toolCall) ==
  IF toolCall.function.arguments # NoArguments
  THEN toolCall.function.arguments ELSE toolCall.arguments

C16_ContentAssembled ==
  (Assembled /\ data.body.error = None) =>
    LET message == data.body.choices[1][1].message
        calls == IF message.tool_calls = None THEN <<>> ELSE message.tool_calls[1]
        texts == IF message.content \in {Undefined, Null, ""} THEN 0 ELSE 1
        content == response.body.content
        usage == data.body.usage
    IN /\ Len(content) = texts + Len(calls)
       /\ texts = 1 => content[1] = TextBlock(message.content)
       /\ \A i \in 1..Len(calls) :
            LET given == GivenArguments(calls[i])
            IN /\ content[texts + i].type = "tool_use"
               /\ IF given.isString
                  THEN /\ ParsesAsJson(given.text)
                       /\ content[texts + i].input = ParseJson(given.text)
                  ELSE content[texts + i].input = given.object
       /\ response.body.usage.input_tokens =
            (IF usage # None /\ HasKey(usage[1], "prompt_tokens")
             THEN usage[1]["prompt_tokens"] ELSE 0)
       /\ response.body.usage.output_tokens =
            (IF usage # None /\ HasKey(usage[1], "completion_tokens")
             THEN usage[1]["completion_tokens"] ELSE 0)

(***************************************************************************)
(* C17: a 2xx answer to a non-streaming request whose body carries an      *)
(* error object is answered with status 500 and the embedded error         *)
(* message, never with a response of type 'message'; a 2xx body without    *)
(* an error object never gives that 500.                                   *)
(***************************************************************************)
EmbeddedMessages ==
  {e["message"] : e \in {x \in UpstreamErrors : HasKey(x, "message")}} \cup {"Unknown error"}

C17_EmbeddedErrorSurfaced ==
  (phase = "replied" /\ data.ok) =>
    IF data.body.error # None
    THEN LET error == data.body.error[1]
         IN /\ response.status = 500
            /\ response.body.type # "message"
            /\ (HasKey(error, "message") /\ error["message"] # "")
                 => response.body.error = error["message"]
    ELSE ~(response.status = 500 /\ response.body.error \in EmbeddedMessages)

C17_Witness ==
  /\ phase = "replied"
  /\ data.ok
  /\ data.body.error = Some([message |-> "boom"])
  /\ data.body.choices # None
  /\ response = Reply(500, ErrorBody("boom"))

(***************************************************************************)
(* C18: when [DONE] is processed, every content-block index for which a    *)
(* content_block_start was emitted has exactly one content_block_stop      *)
(* before message_delta; the text block of index 0 too when tool-call      *)
(* deltas were received in the same stream.                                *)
(***************************************************************************)
StoppedBefore(out, i, m) ==
  Cardinality({k \in AtIndex(out, "content_block_stop", i) : k < m}) = 1

C18_OpenBlocksStopped ==
  \A r \in Requests :
    \A m \in At(task[r].out, "message_delta") :
      \A a \in At(task[r].out, "content_block_start") :
        a < m => StoppedBefore(task[r].out, task[r].out[a].index, m)

(***************************************************************************)
(* C19: a stream that has started is never finalized without a content     *)
(* block: after any sequence of well-formed frames followed by [DONE], a   *)
(* content_block_start precedes message_stop.                              *)
(***************************************************************************)
WellFormedFrame(res) ==
  LET p == Payload(res)
  IN p.json = "object" /\ ~p.error /\ p.choices

WellFormedThenDone(log) ==
  /\ Len(log) > 1
  /\ IsDoneFrame(log[Len(log)])
  /\ \A i \in 1..(Len(log) - 1) : WellFormedFrame(log[i])

C19_NeverEmptyAfterStart ==
  \A r \in Requests :
    (WellFormedThenDone(Processed(r)) /\ At(task[r].out, "message_start") # {}) =>
      \A z \in At(task[r].out, "message_stop") :
        \E a \in At(task[r].out, "content_block_start") : a < z

(***************************************************************************)
(* C20: the output stream is closed without error only by the [DONE]       *)
(* frame: whenever it is closed, message_delta and message_stop have been  *)
(* emitted; a body that ends without [DONE] does not close it normally     *)
(* without message_stop.                                                   *)
(***************************************************************************)
C20_ClosedOnlyByDone ==
  \A r \in Requests :
    task[r].ctrl = "closed" =>
      /\ At(task[r].out, "message_delta") # {}
      /\ At(task[r].out, "message_stop") # {}

(***************************************************************************)
(* C21: a data: line that is not [DONE] and does not parse as JSON emits   *)
(* no event and changes nothing of the accumulator (message-start flag,    *)
(* text-block flag, tool-call flag, argument accumulators, usage), and the *)
(* stream goes on: the step that processes such a line leaves the task as  *)
(* it was, the count of reads apart, so the events of the stream are those *)
(* of the same stream without the line.                                    *)
(***************************************************************************)
IsBadFrame(res) == Payload(res).json = "bad"

\* the step that runs start() on the settled read of request r
Processes(r) == task[r].pc = "await" /\ pending[r].kind # "none" /\ pending'[r].kind = "none"

C21_BadLineSkipped ==
  [][\A r \in Requests :
       (Processes(r) /\ IsBadFrame(pending[r])) =>
         task'[r] = [task[r] EXCEPT !.nread = @ + 1]]_vars

C21_Witness ==
  /\ pending[1].kind = "none"
  /\ Len(delivered[1]) = 3
  /\ HasTextDelta(delivered[1][1])
  /\ IsBadFrame(delivered[1][2])
  /\ IsDoneFrame(delivered[1][3])
  /\ At(task[1].out, "content_block_delta") # {}
  /\ MessageStopIsLast(task[1].out)

(***************************************************************************)
(* C22: after the pipeline of transformOpenAIToClaude has run on a request *)
(* with a tools list and a legacy functions list, the tools list holds one *)
(* declaration for every entry of tools followed by one for every entry of *)
(* functions: no declared function is lost.                                *)
(***************************************************************************)
Declared(r, k) == IF HasKey(r, k) THEN r[k] ELSE <<>>

C22_FunctionsKept ==
  phase \in {"transformed", "built"} =>
    LET tools == Declared(inbound, "tools")
        functions == Declared(inbound, "functions")
    IN /\ Len(req["tools"]) = Len(tools) + Len(functions)
       /\ \A i \in 1..Len(tools) : req["tools"][i].name = tools[i].function.name
       /\ \A i \in 1..Len(functions) :
            req["tools"][Len(tools) + i].name = functions[i].name

(***************************************************************************)
(* C23: the tool choice keeps its variant both ways.  mapToolChoice maps   *)
(* the string "none" to the none variant, any other string or an absent    *)
(* function_call to the auto variant (no tool_choice is the automatic      *)
(* choice) and an object naming a function to the specific variant with    *)
(* that name; the handler maps none, auto and specific(name) to 'none',    *)
(* 'auto' and { type: 'function', function: { name } }; a choice mapped    *)
(* there and back has the same variant and the same name.                  *)
(***************************************************************************)
Variant(kind, name) == <<kind, name>>

\* the variant of a function_call / tool_choice of format A
VariantA(o, k) ==
  IF ~HasKey(o, k) THEN Variant("auto", Undefined)
  ELSE IF o[k].isString
  THEN Variant(IF o[k].text = "none" THEN "none" ELSE "auto", Undefined)
  ELSE Variant("specific", o[k].name)

\* the variant of a tool_choice of format B
VariantB(o) ==
  IF ~HasKey(o, "tool_choice") THEN Variant("auto", Undefined)
  ELSE IF o["tool_choice"].type = "tool"
  THEN Variant("specific", o["tool_choice"].name)
  ELSE Variant(o["tool_choice"].type, Undefined)

\* a function_call the claim speaks of, on a request without a tool_choice
ChoiceGiven ==
  /\ ~HasKey(inbound, "tool_choice")
  /\ HasKey(inbound, "function_call") =>
       (inbound["function_call"].isString \/ inbound["function_call"].name # Undefined)

\* a tool_choice of format B of one of the three variants
ChoiceOfVariant ==
  HasKey(req, "tool_choice") =>
    \/ req["tool_choice"].type \in {"none", "auto"}
    \/ req["tool_choice"].type = "tool" /\ req["tool_choice"].name # Undefined

SchemaKeys == {"items", "additionalProperties", "anyOf", "allOf", "oneOf"}

\* the schema with format 'uri' taken from every reachable node, and
\* nothing else changed
RECURSIVE StripReachable(_)
StripReachable(node) ==
  IF node.kind = "leaf" THEN node
  ELSE IF node.kind = "array"
  THEN JArray([i \in 1..Len(node.items) |-> StripReachable(node.items[i])])
  ELSE LET kept == IF HasKey(node.fields, "format") /\ node.fields["format"] = JLeaf("uri")
                   THEN DeleteKey(node.fields, "format") ELSE node.fields
       IN JObject([key \in DOMAIN kept |->
            IF key = "properties" /\ kept[key].kind = "object"
            THEN JObject([p \in DOMAIN kept[key].fields |->
                            StripReachable(kept[key].fields[p])])
            ELSE IF key \in SchemaKeys THEN StripReachable(kept[key])
            ELSE kept[key]])

C24_NoUriLeft ==
  phase \in {"mapped", "chosen", "transformed", "built"} =>
    req["tools"][1].input_schema =
      StripReachable(inbound["tools"][1].function.parameters)

(***************************************************************************)
(* C29: transformMessages loses no system text: when the request has a     *)
(* system field and its list has system messages, the resulting system     *)
(* value holds the text that was there together with the text of the       *)
(* hoisted messages; when the list has no system message the system field  *)
(* is left as it was.                                                      *)
(***************************************************************************)
Separators == {"", " ", "\n", "\n\n"}

\* the strings that hold both texts, in either order
HoldingBoth(x, y) ==
  {x \o sep \o y : sep \in Separators} \cup {y \o sep \o x : sep \in Separators}

C29_SystemTextKept ==
  phase = "transformed" =>
    LET hoisted == SystemTexts(inbound["messages"])
    IN IF hoisted = <<>>
       THEN /\ HasKey(req, "system") = HasKey(inbound, "system")
            /\ HasKey(req, "system") => req["system"] = inbound["system"]
       ELSE HasKey(inbound, "system") =>
              req["system"] \in HoldingBoth(inbound["system"], BlankLineJoined(hoisted))

(***************************************************************************)
(* C25: a user message of format B whose content list holds text blocks    *)
(* and tool_result blocks, in any interleaving, gives in the upstream list *)
(* one tool message per tool_result block, with the block's tool_use_id as *)
(* tool_call_id, in block order, all before exactly one user message that  *)
(* holds the text; no user message comes before one of these tool messages.*)
(***************************************************************************)
\* the position of the message with a content list in the inbound list
BlockMessageAt ==
  CHOOSE i \in 1..Len(inbound["messages"]) : inbound["messages"][i].blocks # <<>>

\* the messages of the payload that come from the message with a content
\* list: every message before it gives one message, after it too, and so
\* does the system string
FromBlockMessage ==
  LET all == payload["messages"]
      before == (BlockMessageAt - 1) + (IF HasKey(inbound, "system") THEN 1 ELSE 0)
      after == Len(inbound["messages"]) - BlockMessageAt
  IN SubSeq(all, before + 1, Len(all) - after)

BlocksOf(type) ==
  SelectSeq(inbound["messages"][BlockMessageAt].blocks, LAMBDA b : b.type = type)

\* texts with one space between each two
RECURSIVE SpaceJoined(_)
SpaceJoined(blocks) ==
  IF Len(blocks) = 1 THEN blocks[1].text
  ELSE SpaceJoined(SubSeq(blocks, 1, Len(blocks) - 1)) \o " " \o blocks[Len(blocks)].text

TextAndResults ==
  /\ phase = "built"
  /\ inbound["messages"][BlockMessageAt].role = "user"
  /\ BlocksOf("text") # <<>>
  /\ BlocksOf("tool_result") # <<>>

C25_ToolResultsFirst ==
  TextAndResults =>
    LET out == FromBlockMessage
        results == BlocksOf("tool_result")
    IN /\ Len(out) = Len(results) + 1
       /\ \A i \in 1..Len(results) :
            /\ out[i].role = "tool"
            /\ out[i].tool_call_id = results[i].tool_use_id
            /\ out[i].content = results[i].content
       /\ out[Len(out)].role = "user"
       /\ out[Len(out)].content = SpaceJoined(BlocksOf("text"))

\* text, a result, text: the results are interleaved with the text
C25_Witness ==
  /\ TextAndResults
  /\ inbound["messages"][BlockMessageAt].blocks =
       <<TextBlock("a"), ToolResultBlock("c2", "r2"), TextBlock("b")>>
  /\ Len(inbound["messages"]) = 2
  /\ Len(payload["messages"]) = 3

(***************************************************************************)
(* C26: an assistant message of format B gives an upstream message whose   *)
(* content is its text blocks joined by one space when it has a text       *)
(* block, and is null, the key being there, when it has none but has a     *)
(* tool_use block; tool_calls has one entry per tool_use block in block    *)
(* order; a message with neither kind of block is not forwarded.           *)
(***************************************************************************)
AssistantBlocksBuilt ==
  /\ phase = "built"
  /\ inbound["messages"][BlockMessageAt].role = "assistant"

C26_AssistantContent ==
  AssistantBlocksBuilt =>
    LET out == FromBlockMessage
        texts == BlocksOf("text")
        uses == BlocksOf("tool_use")
    IN IF texts = <<>> /\ uses = <<>> THEN out = <<>>
       ELSE /\ Len(out) = 1
            /\ out[1].role = "assistant"
            /\ out[1].content = (IF texts # <<>> THEN SpaceJoined(texts) ELSE Null)
            /\ Len(out[1].tool_calls) = Len(uses)
            /\ \A i \in 1..Len(uses) :
                 /\ out[1].tool_calls[i].id = uses[i].id
                 /\ out[1].tool_calls[i].function.name = uses[i].name

C26_Witness ==
  /\ AssistantBlocksBuilt
  /\ BlocksOf("text") = <<>>
  /\ Len(BlocksOf("tool_use")) = 2
  /\ FromBlockMessage[1].content = Null
  /\ Len(FromBlockMessage[1].tool_calls) = 2

(***************************************************************************)
(* C27: the message_delta emitted at [DONE] has stop_reason tool_use       *)
(* exactly when a tool-call delta was processed earlier in the stream and  *)
(* end_turn otherwise, whatever finish_reason the frames carried; a        *)
(* finalized stream has exactly one message_delta.                         *)
(***************************************************************************)
SawToolCall(log) == \E i \in 1..Len(log) : ToolIndicesOf(log[i]) # {}

C27_StopReasonByToolCall ==
  \A r \in Requests :
    LET out == task[r].out
        log == Processed(r)
        deltas == At(out, "message_delta")
    IN /\ Cardinality(deltas) <= 1
       /\ (\E i \in 1..Len(log) : IsDoneFrame(log[i])) => Cardinality(deltas) = 1
       /\ \A m \in deltas :
            out[m].stop_reason = (IF SawToolCall(log) THEN "tool_use" ELSE "end_turn")

\* a frame with finish_reason tool_calls and no tool call, then [DONE]
C27_Witness ==
  /\ pending[1].kind = "none"
  /\ Len(delivered[1]) = 2
  /\ Payload(delivered[1][1]).finish_reason = "tool_calls"
  /\ ~SawToolCall(delivered[1])
  /\ IsDoneFrame(delivered[1][2])
  /\ \E m \in At(task[1].out, "message_delta") : task[1].out[m].stop_reason = "end_turn"

(***************************************************************************)
(* C30: no streamed text is lost: for a stream of well-formed frames that  *)
(* ends with [DONE], the texts of the text_delta events, in order, make up *)
(* the delta.content values of all the frames in arrival order, those of   *)
(* frames that also carry tool_calls included; and the thinking_delta      *)
(* texts make up the delta.reasoning values.                               *)
(***************************************************************************)
RECURSIVE ContentOf(_)
ContentOf(log) ==
  IF log = <<>> THEN ""
  ELSE (IF Payload(Head(log)).json = "object" THEN Payload(Head(log)).content ELSE "")
         \o ContentOf(Tail(log))

RECURSIVE ReasoningOf(_)
ReasoningOf(log) ==
  IF log = <<>> THEN ""
  ELSE (IF Payload(Head(log)).json = "object" THEN Payload(Head(log)).reasoning ELSE "")
         \o ReasoningOf(Tail(log))

C30_NoTextLost ==
  \A r \in Requests :
    WellFormedThenDone(Processed(r)) =>
      /\ JoinText(SelectSeq(task[r].out, LAMBDA e : e.kind = "text_delta"))
           = ContentOf(Processed(r))
      /\ JoinText(SelectSeq(task[r].out, LAMBDA e : e.kind = "thinking_delta"))
           = ReasoningOf(Processed(r))

(***************************************************************************)
(* C28: a stream whose last line is data: [DONE] is finalized:             *)
(* message_delta and message_stop are emitted before the output closes,    *)
(* also when the body ends right after the sentinel, without a newline,    *)
(* so that the sentinel is in the buffer when the read loop ends.          *)
(***************************************************************************)
C28_UnterminatedDoneFinalized ==
  \A r \in Requests :
    (task[r].pc = "done" /\ wire[r] = <<>> /\ IsDone(StripData(Trim(task[r].buffer)))) =>
      /\ At(task[r].out, "message_delta") # {}
      /\ At(task[r].out, "message_stop") # {}

====
